---- MODULE Spec2Model ----
(***************************************************************************)
(* A model of the inotify based LogChecker (logchecker/logchecker.go):     *)
(* the LogChecker object with its observed services and files, the control *)
(* calls Start and Stop, one Watch goroutine per valid file, the Check     *)
(* cycle of a file and the in-flight notifications, and the calls that     *)
(* change the configuration: InitConfig, AddService and RemoveService.     *)
(* The file system, the clock and the inotify event source are the         *)
(* environment.                                                            *)
(*                                                                         *)
(* The uint64 fields are modelled as naturals: the values the model        *)
(* reaches stay far below 2^64.                                            *)
(***************************************************************************)
EXTENDS Integers, Sequences, FiniteSets, TLC

\* ------------------------------------------------------------------ bounds
\* A scenario pairs a configuration with what the environment and the caller
\* may do to it (see Scenarios); these bound the scenarios.
\* seconds that pass after the first Start
MaxTime == 2
\* lines the environment writes to a file whose boundary escalates
MaxLines == 3
\* attribute-change events (chmod, remove) of the environment
MaxAttrib == 1
\* Start calls that pass the IsWorking test
MaxStarts == 2
\* lines the environment writes to a file whose boundary is fixed, or that
\* is rotated
SideLines == 2
\* seconds that pass in the scenario that starts twice
SideTime == 1
\* matching lines a log holds already when it begins to be watched
MaxMatches == 13
\* AddService and RemoveService calls of the caller
MaxEdits == 3
\* times the environment truncates a log file
MaxCuts == 1

\* --------------------------------------------------------- program constants
\* maxMsgLines uint64 = 10
maxMsgLines == 10
\* initTime = time.Time{}, a time no clock reading equals
initTime == -1
\* the nil *regexp.Regexp
NoRegexp == "<nil>"
\* the nil Backender
NoBackend == "<no backend>"
\* mandatory := [4]string{"user", "password", "host", "addr"}
mandatory == <<"user", "password", "host", "addr">>

\* ------------------------------------------------------------- environment
\* paths of the model; "rel" is the only path that is not absolute
AbsPaths == {"/a", "/b", "/c"}
Paths == AbsPaths \cup {"rel"}
\* lines the environment appends to a log file (a log that has lines when
\* the watch begins can also hold the empty line)
Lines == {"m", "n"}
\* patterns of the model: "m" and "." compile, "**" does not, "" is empty
Patterns == {"m", ".", "**", ""}
\* names of the services the caller passes to AddService and RemoveService
Names == {"", "s2", "s3"}

VARIABLES
    Observed,   \* logger.Cfg.Observed: sequence of Service, each with Files
    Running,    \* logger.Running: initTime or the time of Start
    group,      \* the sync.WaitGroup counter shared by Start, Check and Stop
    tasks,      \* the Watch goroutines, in spawn order
    closed,     \* the finish channels that have been closed
    starts,     \* number of finish channels handed to the caller so far
    finish,     \* the caller's handle: the channel of its latest Start (0: none)
    ctl,        \* the caller's position: "idle" or "wait" (inside Stop)
    ret,        \* what the latest control call returned
    fs,         \* the file system: per path, whether it exists and its lines
    now,        \* the clock, in seconds
    quota,      \* what the scenario still allows: lines, attribute changes,
                \* starts, ticks, reloads and edits of the configuration,
                \* truncations
    outbox,     \* notifier goroutines started by Check that have not finished
    sent,       \* per file, the messages handed to the notifier (history)
    streak,     \* per file, the notifying cycles since the last Start or
                \* cycle that did not notify (history)
    panicked,   \* the process died of a runtime panic
    Sender,     \* logger.Cfg.Sender: a map from field names to strings
    Storage,    \* logger.Cfg.Storage
    Backend,    \* logger.Backend
    conf,       \* the content of the configuration file InitConfig reads
    calls,      \* control calls made by goroutines of their own: per caller
                \* its position in Start or Stop, its channel, its result
    Completed,  \* worker-pool design: logger.Completed
    Finished,   \* worker-pool design: logger.Finished
    InWork,     \* worker-pool design: logger.InWork
    runs,       \* worker-pool design: per Start that went ahead, its pending
                \* channel, what its feeder has still to send, its Pollers
    sleeps,     \* worker-pool design: the Task.Sleep goroutines
    refused     \* worker-pool design: Start calls blocked in finished <- false

vars == <<Observed, Running, group, tasks, closed, starts, finish, ctl, ret,
          fs, now, quota, outbox, sent, streak, panicked,
          Sender, Storage, Backend, conf,
          calls, Completed, Finished, InWork, runs, sleeps, refused>>

\* the state of the worker-pool design
pool == <<Completed, Finished, InWork, runs, sleeps, refused>>

\* --------------------------------------------------------------- the types
\* a File as json.Unmarshal leaves it: the mutable fields are zero
NewFile(log, pattern, boundary, increase, limit, period) ==
    [Log |-> log, Pattern |-> pattern, Boundary |-> boundary,
     Increase |-> increase, Limit |-> limit, Period |-> period,
     RgPattern |-> NoRegexp, Pos |-> 0, LogStart |-> initTime,
     Granularity |-> 0, Found |-> 0, Counter |-> 0, ExtBoundary |-> 0]

NewService(name, files) == [Name |-> name, Files |-> files]

\* the (service, file) index pairs of a configuration
FileKeys(obs) ==
    UNION {{<<i, j>> : j \in 1..Len(obs[i].Files)} : i \in 1..Len(obs)}

FileOf(obs, k) == obs[k[1]].Files[k[2]]

\* ------------------------------------------------------------ pure helpers
\* filepath.IsAbs
IsAbs(p) == p \in AbsPaths

\* os.Stat(p) succeeds
StatOk(p) == p \in AbsPaths /\ fs[p].exists

\* regexp.Compile(p) succeeds
CompileOk(p) == p \in {"m", "."}

\* RgPattern.MatchString(line) for the patterns and lines of the model
MatchString(rg, line) ==
    CASE rg = "m" -> line = "m"
      [] rg = "." -> line \in {"m", "n"}
      [] OTHER -> FALSE

\* File.Validate without its os.Stat test
FileValidateNoStat(f) ==
    IF ~IsAbs(f.Log) THEN "not absolute"
    ELSE IF f.Pattern = "" THEN "empty pattern"
    ELSE IF ~CompileOk(f.Pattern) THEN "bad pattern"
    ELSE "nil"

\* File.Validate that looks at the pattern before the path
FileValidatePatternFirst(f) ==
    IF f.Pattern = "" THEN "empty pattern"
    ELSE IF ~CompileOk(f.Pattern) THEN "bad pattern"
    ELSE IF ~IsAbs(f.Log) THEN "not absolute"
    ELSE IF ~StatOk(f.Log) THEN "stat"
    ELSE "nil"

\* File.Validate: "nil", or the first failing test
FileValidate(f) ==
    IF ~IsAbs(f.Log) THEN "not absolute"
    ELSE IF ~StatOk(f.Log) THEN "stat"
    ELSE IF f.Pattern = "" THEN "empty pattern"
    ELSE IF ~CompileOk(f.Pattern) THEN "bad pattern"
    ELSE "nil"

\* the File after File.Validate ran on it: the regexp is stored once the
\* pattern reaches regexp.Compile (nil when it does not compile)
Validated(f) ==
    IF FileValidate(f) = "nil" THEN [f EXCEPT !.RgPattern = f.Pattern]
    ELSE IF FileValidate(f) = "bad pattern" THEN [f EXCEPT !.RgPattern = NoRegexp]
    ELSE f

\* IsWorking that never sees the process running
IsWorkingNever == FALSE

\* IsWorking that always sees the process running
IsWorkingAlways == TRUE

\* IsWorking that looks at the Watch goroutines instead of Running
IsWorkingByTasks == \E t \in 1..Len(tasks) : tasks[t].pc # "done"

\* LogChecker.IsWorking
IsWorking == Running # initTime

\* ---------------------------------------------------------------- File.Check
\* the scanning loop without the test f.Pos < clines
RECURSIVE ScanLinesAll(_, _, _, _, _)
ScanLinesAll(lines, f, clines, counter, msgLines) ==
    IF clines = Len(lines)
    THEN [counter |-> counter, clines |-> clines, msgLines |-> msgLines]
    ELSE LET c == clines + 1
             line == lines[c]
         IN  IF line # "" /\ MatchString(f.RgPattern, line)
             THEN ScanLinesAll(lines, f, c, counter + 1,
                    IF counter < maxMsgLines + 1
                    THEN Append(msgLines, [n |-> c, text |-> line])
                    ELSE IF counter = maxMsgLines + 1
                         THEN Append(msgLines, [n |-> 0, text |-> "..."])
                         ELSE msgLines)
             ELSE ScanLinesAll(lines, f, c, counter, msgLines)

\* the scanning loop with counter++ inside the cases of the switch: a match
\* that is not put into the message is not counted
RECURSIVE ScanLinesSampled(_, _, _, _, _)
ScanLinesSampled(lines, f, clines, counter, msgLines) ==
    IF clines = Len(lines)
    THEN [counter |-> counter, clines |-> clines, msgLines |-> msgLines]
    ELSE LET c == clines + 1
             line == lines[c]
         IN  IF f.Pos < c /\ line # "" /\ MatchString(f.RgPattern, line)
             THEN IF counter < maxMsgLines + 1
                  THEN ScanLinesSampled(lines, f, c, counter + 1,
                          Append(msgLines, [n |-> c, text |-> line]))
                  ELSE IF counter = maxMsgLines + 1
                  THEN ScanLinesSampled(lines, f, c, counter + 1,
                          Append(msgLines, [n |-> 0, text |-> "..."]))
                  ELSE ScanLinesSampled(lines, f, c, counter, msgLines)
             ELSE ScanLinesSampled(lines, f, c, counter, msgLines)

\* the scanning loop of File.Check from line clines + 1 on: counts the
\* non-empty matching lines after f.Pos and collects the message lines
RECURSIVE ScanLines(_, _, _, _, _)
ScanLines(lines, f, clines, counter, msgLines) ==
    IF clines = Len(lines)
    THEN [counter |-> counter, clines |-> clines, msgLines |-> msgLines]
    ELSE LET c == clines + 1
             line == lines[c]
         IN  IF f.Pos < c /\ line # "" /\ MatchString(f.RgPattern, line)
             THEN ScanLines(lines, f, c, counter + 1,
                    IF counter < maxMsgLines + 1
                    THEN Append(msgLines, [n |-> c, text |-> line])
                    ELSE IF counter = maxMsgLines + 1
                         THEN Append(msgLines, [n |-> 0, text |-> "..."])
                         ELSE msgLines)
             ELSE ScanLines(lines, f, c, counter, msgLines)

Scan(lines, f) == ScanLines(lines, f, 0, 0, <<>>)

\* File.Duration at clock reading t: the index of the period t falls in
Duration(f, t) == (t - f.LogStart) \div f.Period

\* the period test without `f.Counter = 0`
PeriodResetFoundOnly(f, curPeriod) ==
    IF curPeriod # f.Granularity
    THEN [f EXCEPT !.Granularity = curPeriod, !.Found = 0]
    ELSE f

\* the period test of File.Check: a new period index clears both counters
PeriodReset(f, curPeriod) ==
    IF curPeriod # f.Granularity
    THEN [f EXCEPT !.Granularity = curPeriod, !.Found = 0, !.Counter = 0]
    ELSE f

\* a position that advances by the lines that matched
CountedMatches(f, r) ==
    [f EXCEPT !.Pos = f.Pos + r.counter, !.Found = f.Found + r.counter]

\* f.Pos = clines; f.Found += counter
Counted(f, r) == [f EXCEPT !.Pos = r.clines, !.Found = f.Found + r.counter]

\* the condition with a strict comparison of Found
ThresholdStrict(f) == (f.Found > f.ExtBoundary) /\ (f.Counter <= f.Limit)

\* the condition under which File.Check sends
Threshold(f) == (f.Found >= f.ExtBoundary) /\ (f.Counter <= f.Limit)

\* the sending branch without the doubling
NotifiedSameBoundary(f) == [f EXCEPT !.Counter = f.Counter + 1]

\* the sending branch that doubles the boundary whether Increase is set or not
NotifiedDoubling(f) ==
    [f EXCEPT !.ExtBoundary = f.ExtBoundary * 2, !.Counter = f.Counter + 1]

\* the sending branch without f.Counter++
NotifiedUncounted(f) ==
    [f EXCEPT !.ExtBoundary = IF f.Increase THEN f.ExtBoundary * 2
                              ELSE f.ExtBoundary]

\* the branch of File.Check that sends: the boundary doubles if Increase is
\* set and the counter of sent messages grows
Notified(f) ==
    [f EXCEPT !.ExtBoundary = IF f.Increase THEN f.ExtBoundary * 2
                              ELSE f.ExtBoundary,
              !.Counter = f.Counter + 1]

\* an else branch that keeps the boundary
RelaxedKeep(f) == f

\* the else branch of File.Check
Relaxed(f) == [f EXCEPT !.ExtBoundary = f.Boundary]

\* the message File.Check composes; for the history it also records the
\* period (LogStart and period index) of the cycle, the boundary its
\* threshold test used, the finish channel of the Watch that sent it, its
\* place in the sequence of notifying cycles it belongs to and the matches
\* its cycle counted
Message(f, r, ch, n) ==
    [log |-> f.Log, found |-> f.Found, lines |-> r.msgLines,
     start |-> f.LogStart, period |-> f.Granularity, ext |-> f.ExtBoundary,
     run |-> ch, nth |-> n, matched |-> r.counter]

\* ------------------------------------------------------------------- Start
\* the files of one service after the loop body of Start ran on each
StartFiles(files, t) ==
    [j \in 1..Len(files) |->
        IF FileValidate(files[j]) = "nil"
        THEN [Validated(files[j]) EXCEPT !.LogStart = t,
                                         !.ExtBoundary = files[j].Boundary]
        ELSE Validated(files[j])]

\* Start spawning a Watch for every file, validated or not
RECURSIVE ValidKeysAll(_, _, _)
ValidKeysAll(obs, i, j) ==
    IF i > Len(obs) THEN <<>>
    ELSE IF j > Len(obs[i].Files) THEN ValidKeysAll(obs, i + 1, 1)
    ELSE <<(<<i, j>>)>> \o ValidKeysAll(obs, i, j + 1)

\* the keys of the files Start spawns a Watch goroutine for, in loop order
RECURSIVE ValidKeys(_, _, _)
ValidKeys(obs, i, j) ==
    IF i > Len(obs) THEN <<>>
    ELSE IF j > Len(obs[i].Files) THEN ValidKeys(obs, i + 1, 1)
    ELSE IF FileValidate(obs[i].Files[j]) = "nil"
         THEN <<(<<i, j>>)>> \o ValidKeys(obs, i, j + 1)
         ELSE ValidKeys(obs, i, j + 1)

\* a Watch goroutine that has returned
Done(task) ==
    [task EXCEPT !.pc = "done", !.wgen = 0, !.events = <<>>, !.err = "none"]

\* a Watch goroutine that gives up when f.Check returns an error
AbortedDone(task) == Done(task)

\* a Watch goroutine after f.Check returned the error of os.Open: the error
\* is logged and the loop goes on
Aborted(task) == [task EXCEPT !.pc = "select", !.err = "open"]

\* the File after IsMoved, with its position kept
ResubscribedKeepPos(f) == f

\* the File after IsMoved returned a new watcher: f.Pos = 0
Resubscribed(f) == [f EXCEPT !.Pos = 0]

\* a Watch goroutine as `go serv.Files[j].Watch(group, finish, logger)` starts
\* it; err is what its latest f.Check returned ("none" before the first)
NewTask(k, ch) ==
    [key |-> k, finish |-> ch, pc |-> "init", wgen |-> 0, events |-> <<>>,
     err |-> "none"]

\* LogChecker.Start
Start ==
    /\ ~panicked /\ ctl = "idle"
    /\ IF IsWorking
       THEN /\ ret' = [op |-> "Start", err |-> "AlreadyRunning", watched |-> 0]
            /\ UNCHANGED <<Observed, Running, tasks, starts, finish, quota,
                           streak>>
       ELSE /\ quota.starts > 0
            /\ LET keys == ValidKeys(Observed, 1, 1)
                   ch == starts + 1
               IN  /\ Running' = now
                   /\ Observed' = [i \in 1..Len(Observed) |->
                          [Observed[i] EXCEPT
                              !.Files = StartFiles(Observed[i].Files, now)]]
                   /\ tasks' = tasks \o [n \in 1..Len(keys) |-> NewTask(keys[n], ch)]
                   /\ starts' = ch
                   /\ quota' = [quota EXCEPT !.starts = @ - 1]
                   /\ streak' = [k \in DOMAIN streak |->
                          IF k \in FileKeys(Observed)
                             /\ FileValidate(FileOf(Observed, k)) = "nil"
                          THEN 0 ELSE streak[k]]
                   /\ finish' = ch
                   /\ ret' = [op |-> "Start",
                              err |-> IF Len(keys) = 0 THEN "EmptyTaskSet" ELSE "ok",
                              watched |-> Len(keys)]
    /\ UNCHANGED <<group, closed, ctl, fs, now, outbox, sent, panicked>>
    /\ UNCHANGED <<Sender, Storage, Backend, conf>>
    /\ UNCHANGED <<calls, pool>>

\* ------------------------------------------------------ LogChecker.Validate
\* the least index of a non-empty set of indices
Least(S) == CHOOSE i \in S : \A j \in S : i <= j

\* the loop over the services in LogChecker.Validate from service i on: the
\* first error it meets, "nil" if none.  The error of a file is the error of
\* its File.Validate (Validate writes "file error" and the path before it);
\* the File that is validated is a copy, so no regexp is stored
RECURSIVE ServicesError(_, _)
ServicesError(obs, i) ==
    IF i > Len(obs) THEN "nil"
    ELSE IF \E h \in 1..(i - 1) : obs[h].Name = obs[i].Name
    THEN "service names should be unique"
    ELSE LET bad == {j \in 1..Len(obs[i].Files) :
                        FileValidate(obs[i].Files[j]) # "nil"}
         IN  IF bad # {}
             THEN FileValidate(obs[i].Files[Least(bad)])
             ELSE ServicesError(obs, i + 1)

\* the loop over the sender fields that accepts an empty value
RECURSIVE SenderErrorPresent(_, _)
SenderErrorPresent(sender, n) ==
    IF n > Len(mandatory) THEN "nil"
    ELSE IF mandatory[n] \notin DOMAIN sender THEN "missing sender field"
    ELSE SenderErrorPresent(sender, n + 1)

\* the loop over the mandatory sender fields from field n on
RECURSIVE SenderError(_, _)
SenderError(sender, n) ==
    IF n > Len(mandatory) THEN "nil"
    ELSE IF mandatory[n] \notin DOMAIN sender THEN "missing sender field"
    ELSE IF sender[mandatory[n]] = "" THEN "sender field can't be empty"
    ELSE SenderError(sender, n + 1)

\* the switch on logger.Cfg.Storage
BackendOf(storage) == IF storage = "memory" THEN "Memory" ELSE NoBackend

\* LogChecker.Validate: "ok", or the first error
LoggerValidate(obs, sender, storage) ==
    IF ServicesError(obs, 1) # "nil" THEN ServicesError(obs, 1)
    ELSE IF SenderError(sender, 1) # "nil" THEN SenderError(sender, 1)
    ELSE IF BackendOf(storage) = NoBackend THEN "unknown backend"
    ELSE "ok"

\* -------------------------------------------------------------- InitConfig
\* the fields of a File that the configuration file holds
JSON(f) ==
    [Log |-> f.Log, Pattern |-> f.Pattern, Boundary |-> f.Boundary,
     Increase |-> f.Increase, Limit |-> f.Limit, Period |-> f.Period]

\* json.Unmarshal of the object c into the File f that is already there: the
\* fields c names are assigned, the others keep their values
Unmarshal(f, c) ==
    [f EXCEPT !.Log = c.Log, !.Pattern = c.Pattern, !.Boundary = c.Boundary,
              !.Increase = c.Increase, !.Limit = c.Limit, !.Period = c.Period]

\* json.Unmarshal of the array c into the slice files: an element that is
\* there is decoded into, a new one starts from the zero File, and the slice
\* is cut to the length of c
UnmarshalFiles(files, c) ==
    [j \in 1..Len(c) |->
        Unmarshal(IF j <= Len(files) THEN files[j]
                  ELSE NewFile("", "", 0, FALSE, 0, 0), c[j])]

\* json.Unmarshal of the array c into logger.Cfg.Observed
UnmarshalObserved(obs, c) ==
    [i \in 1..Len(c) |->
        NewService(c[i].Name,
                   UnmarshalFiles(IF i <= Len(obs) THEN obs[i].Files ELSE <<>>,
                                  c[i].Files))]

\* json.Unmarshal of the object c into the map logger.Cfg.Sender: the keys of
\* c are set, the others stay
UnmarshalSender(sender, c) ==
    [k \in DOMAIN sender \cup DOMAIN c |->
        IF k \in DOMAIN c THEN c[k] ELSE sender[k]]

\* InitConfig on the configuration file of the scenario, which exists and
\* holds a JSON object with the keys sender, observed and storage
InitConfig ==
    /\ ~panicked /\ ctl = "idle"
    /\ quota.inits > 0
    /\ IF IsWorking
       THEN /\ ret' = [op |-> "InitConfig", err |-> "AlreadyRunning",
                       watched |-> 0]
            /\ UNCHANGED <<Observed, quota, Sender, Storage, Backend>>
       ELSE /\ Observed' = UnmarshalObserved(Observed, conf.observed)
            /\ Sender' = UnmarshalSender(Sender, conf.sender)
            /\ Storage' = conf.storage
            /\ quota' = [quota EXCEPT !.inits = @ - 1]
            /\ ret' = [op |-> "InitConfig",
                       err |-> LoggerValidate(Observed', Sender', Storage'),
                       watched |-> 0]
            /\ Backend' = IF ret'.err = "ok" THEN BackendOf(Storage')
                          ELSE Backend
    /\ UNCHANGED <<Running, group, tasks, closed, starts, finish, ctl, fs,
                   now, outbox, sent, streak, panicked, conf>>
    /\ UNCHANGED <<calls, pool>>

\* ------------------------------------------- AddService and RemoveService
\* HasService that finds no service
HasServiceNever(obs, serv) == -1

\* LogChecker.HasService: the index (from 0) of the first service with the
\* name of serv, or -1
HasService(obs, serv) ==
    LET hit == {i \in 1..Len(obs) : obs[i].Name = serv.Name}
    IN  IF hit = {} THEN -1 ELSE Least(hit) - 1

\* a removal that also drops the services after the one removed
RemovedTail(obs, index) == SubSeq(obs, 1, index)

\* append(Observed[0:index], Observed[index+1:]...)
Removed(obs, index) ==
    SubSeq(obs, 1, index) \o SubSeq(obs, index + 2, Len(obs))

\* the services the caller passes; they have no files
Services == {NewService(n, <<>>) : n \in Names}

\* what AddService and RemoveService return, with the name that was passed
Returned(op, err, serv) ==
    [op |-> op, err |-> err, watched |-> 0, name |-> serv.Name]

\* LogChecker.AddService
AddService(serv) ==
    /\ ~panicked /\ ctl = "idle"
    /\ quota.edits > 0
    /\ quota' = [quota EXCEPT !.edits = @ - 1]
    /\ IF IsWorking
       THEN /\ ret' = Returned("AddService", "AlreadyRunning", serv)
            /\ UNCHANGED Observed
       ELSE IF serv.Name = ""
       THEN /\ ret' = Returned("AddService", "EmptyName", serv)
            /\ UNCHANGED Observed
       ELSE IF HasService(Observed, serv) > -1
       THEN /\ ret' = Returned("AddService", "AlreadyUsed", serv)
            /\ UNCHANGED Observed
       ELSE /\ Observed' = Append(Observed, serv)
            /\ ret' = Returned("AddService", "ok", serv)
    /\ UNCHANGED <<Running, group, tasks, closed, starts, finish, ctl, fs,
                   now, outbox, sent, streak, panicked,
                   Sender, Storage, Backend, conf>>
    /\ UNCHANGED <<calls, pool>>

\* RemoveService without the IsWorking test
RemoveServiceAnytime(serv) ==
    /\ ~panicked /\ ctl = "idle"
    /\ quota.edits > 0
    /\ quota' = [quota EXCEPT !.edits = @ - 1]
    /\ IF HasService(Observed, serv) = -1
       THEN /\ ret' = Returned("RemoveService", "NotFound", serv)
            /\ UNCHANGED Observed
       ELSE /\ Observed' = Removed(Observed, HasService(Observed, serv))
            /\ ret' = Returned("RemoveService", "ok", serv)
    /\ UNCHANGED <<Running, group, tasks, closed, starts, finish, ctl, fs,
                   now, outbox, sent, streak, panicked,
                   Sender, Storage, Backend, conf>>
    /\ UNCHANGED <<calls, pool>>

\* LogChecker.RemoveService
RemoveService(serv) ==
    /\ ~panicked /\ ctl = "idle"
    /\ quota.edits > 0
    /\ quota' = [quota EXCEPT !.edits = @ - 1]
    /\ IF IsWorking
       THEN /\ ret' = Returned("RemoveService", "AlreadyRunning", serv)
            /\ UNCHANGED Observed
       ELSE IF HasService(Observed, serv) = -1
       THEN /\ ret' = Returned("RemoveService", "NotFound", serv)
            /\ UNCHANGED Observed
       ELSE /\ Observed' = Removed(Observed, HasService(Observed, serv))
            /\ ret' = Returned("RemoveService", "ok", serv)
    /\ UNCHANGED <<Running, group, tasks, closed, starts, finish, ctl, fs,
                   now, outbox, sent, streak, panicked,
                   Sender, Storage, Backend, conf>>
    /\ UNCHANGED <<calls, pool>>

\* -------------------------------------------------------------------- Stop
\* LogChecker.Stop up to group.Wait(): the IsWorking test and close(finish)
StopCall ==
    /\ ~panicked /\ ctl = "idle"
    /\ IF ~IsWorking
       THEN /\ ret' = [op |-> "Stop", err |-> "NotRunning", watched |-> 0]
            /\ UNCHANGED <<closed, ctl, panicked>>
       ELSE IF finish \in closed
            THEN /\ panicked' = TRUE
                 /\ UNCHANGED <<closed, ctl, ret>>
            ELSE /\ closed' = closed \cup {finish}
                 /\ ctl' = "wait"
                 /\ UNCHANGED <<ret, panicked>>
    /\ UNCHANGED <<Observed, Running, group, tasks, starts, finish, fs, now,
                   quota, outbox, sent, streak>>
    /\ UNCHANGED <<Sender, Storage, Backend, conf>>
    /\ UNCHANGED <<calls, pool>>

\* LogChecker.Stop from the return of group.Wait() on
StopReturn ==
    /\ ~panicked /\ ctl = "wait"
    /\ group = 0
    /\ Running' = initTime
    /\ ctl' = "idle"
    /\ ret' = [op |-> "Stop", err |-> "ok", watched |-> 0]
    /\ UNCHANGED <<Observed, group, tasks, closed, starts, finish, fs, now,
                   quota, outbox, sent, streak, panicked>>
    /\ UNCHANGED <<Sender, Storage, Backend, conf>>
    /\ UNCHANGED <<calls, pool>>

\* ------------------------------------------------------------------- Watch
\* the head of File.Watch: a new watcher on the file, or return if that fails
WatchInit(t) ==
    /\ ~panicked /\ tasks[t].pc = "init"
    /\ LET p == FileOf(Observed, tasks[t].key).Log
       IN  tasks' = [tasks EXCEPT ![t] =
               IF StatOk(p)
               THEN [@ EXCEPT !.pc = "select", !.wgen = fs[p].gen]
               ELSE Done(@)]
    /\ UNCHANGED <<Observed, Running, group, closed, starts, finish, ctl, ret,
                   fs, now, quota, outbox, sent, streak, panicked>>
    /\ UNCHANGED <<Sender, Storage, Backend, conf>>
    /\ UNCHANGED <<calls, pool>>

\* a finish case that goes round the loop again instead of returning
WatchFinishContinue(t) ==
    /\ ~panicked /\ tasks[t].pc = "select"
    /\ tasks[t].finish \in closed
    /\ UNCHANGED vars

\* case <-finish
WatchFinish(t) ==
    /\ ~panicked /\ tasks[t].pc = "select"
    /\ tasks[t].finish \in closed
    /\ tasks' = [tasks EXCEPT ![t] = Done(@)]
    /\ UNCHANGED <<Observed, Running, group, closed, starts, finish, ctl, ret,
                   fs, now, quota, outbox, sent, streak, panicked>>
    /\ UNCHANGED <<Sender, Storage, Backend, conf>>
    /\ UNCHANGED <<calls, pool>>

\* an event case that is also taken while File.Check is running
WatchEventAnytime(t) ==
    /\ ~panicked /\ tasks[t].pc \in {"select", "scan"}
    /\ tasks[t].events # <<>>
    /\ IF Head(tasks[t].events) = "attrib"
       THEN /\ tasks' = [tasks EXCEPT ![t].pc = "moved",
                                      ![t].events = Tail(@)]
            /\ UNCHANGED group
       ELSE /\ tasks' = [tasks EXCEPT ![t].pc = "scan",
                                      ![t].events = Tail(@)]
            /\ group' = group + 1
    /\ UNCHANGED <<Observed, Running, closed, starts, finish, ctl, ret,
                   fs, now, quota, outbox, sent, streak, panicked>>
    /\ UNCHANGED <<Sender, Storage, Backend, conf>>
    /\ UNCHANGED <<calls, pool>>

\* case event := <-watcher.Event, up to the call of IsMoved or of Check;
\* Check begins with group.Add(1)
WatchEvent(t) ==
    /\ ~panicked /\ tasks[t].pc = "select"
    /\ tasks[t].events # <<>>
    /\ IF Head(tasks[t].events) = "attrib"
       THEN /\ tasks' = [tasks EXCEPT ![t].pc = "moved",
                                      ![t].events = Tail(@)]
            /\ UNCHANGED group
       ELSE /\ tasks' = [tasks EXCEPT ![t].pc = "scan",
                                      ![t].events = Tail(@)]
            /\ group' = group + 1
    /\ UNCHANGED <<Observed, Running, closed, starts, finish, ctl, ret,
                   fs, now, quota, outbox, sent, streak, panicked>>
    /\ UNCHANGED <<Sender, Storage, Backend, conf>>
    /\ UNCHANGED <<calls, pool>>

\* case err := <-watcher.Error
WatchError(t) ==
    /\ ~panicked /\ tasks[t].pc = "select"
    /\ tasks' = [tasks EXCEPT ![t] = Done(@)]
    /\ UNCHANGED <<Observed, Running, group, closed, starts, finish, ctl, ret,
                   fs, now, quota, outbox, sent, streak, panicked>>
    /\ UNCHANGED <<Sender, Storage, Backend, conf>>
    /\ UNCHANGED <<calls, pool>>

\* the IN_ATTRIB branch of a Watch that goes on to Check when IsMoved
\* returned an error
IsMovedRescan(t) ==
    /\ ~panicked /\ tasks[t].pc = "moved"
    /\ LET k == tasks[t].key
           p == FileOf(Observed, k).Log
       IN  IF ~StatOk(p)
           THEN /\ tasks' = [tasks EXCEPT ![t].pc = "scan"]
                /\ group' = group + 1
                /\ UNCHANGED Observed
           ELSE /\ tasks' = [tasks EXCEPT ![t].pc = "scan",
                                          ![t].wgen = fs[p].gen,
                                          ![t].events = <<>>]
                /\ Observed' = [Observed EXCEPT
                       ![k[1]].Files[k[2]] = Resubscribed(@)]
                /\ group' = group + 1
    /\ UNCHANGED <<Running, closed, starts, finish, ctl, ret,
                   fs, now, quota, outbox, sent, streak, panicked>>
    /\ UNCHANGED <<Sender, Storage, Backend, conf>>
    /\ UNCHANGED <<calls, pool>>

\* IsMoved after its sleep, and the rest of the IN_ATTRIB branch of Watch:
\* the file is gone and Watch returns, or a new watcher replaces the old
\* one, f.Pos = 0 and Check begins
IsMoved(t) ==
    /\ ~panicked /\ tasks[t].pc = "moved"
    /\ LET k == tasks[t].key
           p == FileOf(Observed, k).Log
       IN  IF ~StatOk(p)
           THEN /\ tasks' = [tasks EXCEPT ![t] = Done(@)]
                /\ UNCHANGED <<Observed, group>>
           ELSE /\ tasks' = [tasks EXCEPT ![t].pc = "scan",
                                          ![t].wgen = fs[p].gen,
                                          ![t].events = <<>>]
                /\ Observed' = [Observed EXCEPT
                       ![k[1]].Files[k[2]] = Resubscribed(@)]
                /\ group' = group + 1
    /\ UNCHANGED <<Running, closed, starts, finish, ctl, ret,
                   fs, now, quota, outbox, sent, streak, panicked>>
    /\ UNCHANGED <<Sender, Storage, Backend, conf>>
    /\ UNCHANGED <<calls, pool>>

\* File.Check after group.Add(1), with its deferred group.Done()
Check(t) ==
    /\ ~panicked /\ tasks[t].pc = "scan"
    /\ LET k == tasks[t].key
           f == FileOf(Observed, k)
       IN  IF ~StatOk(f.Log)
           THEN \* os.Open fails
                /\ group' = group - 1
                /\ tasks' = [tasks EXCEPT ![t] = Aborted(@)]
                /\ UNCHANGED <<Observed, outbox, sent, streak, panicked>>
           ELSE IF f.Period = 0
           THEN \* integer divide by zero in Duration
                /\ panicked' = TRUE
                /\ UNCHANGED <<Observed, group, tasks, outbox, sent, streak>>
           ELSE LET r == Scan(fs[f.Log].lines, f)
                    g == Counted(PeriodReset(f, Duration(f, now)), r)
                IN  /\ group' = group - 1
                    /\ tasks' = [tasks EXCEPT ![t].pc = "select",
                                              ![t].err = "nil"]
                    /\ UNCHANGED panicked
                    /\ IF Threshold(g)
                       THEN /\ Observed' = [Observed EXCEPT
                                   ![k[1]].Files[k[2]] = Notified(g)]
                            /\ outbox' = outbox + 1
                            /\ sent' = [sent EXCEPT ![k] =
                                   Append(@, Message(g, r, tasks[t].finish,
                                                    streak[k] + 1))]
                            /\ streak' = [streak EXCEPT ![k] = @ + 1]
                       ELSE /\ Observed' = [Observed EXCEPT
                                   ![k[1]].Files[k[2]] = Relaxed(g)]
                            /\ streak' = [streak EXCEPT ![k] = 0]
                            /\ UNCHANGED <<outbox, sent>>
    /\ UNCHANGED <<Running, closed, starts, finish, ctl, ret,
                   fs, now, quota>>
    /\ UNCHANGED <<Sender, Storage, Backend, conf>>
    /\ UNCHANGED <<calls, pool>>

\* a notifier goroutine whose send fails ends the process
NotifyFatal ==
    /\ ~panicked /\ outbox > 0
    /\ \E err \in {"nil", "send"} :
          /\ outbox' = outbox - 1
          /\ panicked' = (err # "nil")
    /\ UNCHANGED <<Observed, Running, group, tasks, closed, starts, finish,
                   ctl, ret, fs, now, quota, sent, streak>>
    /\ UNCHANGED <<Sender, Storage, Backend, conf>>
    /\ UNCHANGED <<calls, pool>>

\* a notifier goroutine (LogChecker.Notify or debugSender.Notify) ends:
\* smtp.SendMail returned err, and an err that is not nil was logged
Notify ==
    /\ ~panicked /\ outbox > 0
    /\ \E err \in {"nil", "send"} :
          /\ outbox' = outbox - 1
          /\ panicked' = panicked
    /\ UNCHANGED <<Observed, Running, group, tasks, closed, starts, finish,
                   ctl, ret, fs, now, quota, sent, streak>>
    /\ UNCHANGED <<Sender, Storage, Backend, conf>>
    /\ UNCHANGED <<calls, pool>>

\* ------------------------------------------------------------- environment
\* the watchers that receive the events of the file now at path p (the
\* events a watcher gets while Watch is inside IsMoved are never read: the
\* watcher is replaced or Watch returns)
Watching(t, p) ==
    /\ tasks[t].pc \in {"select", "scan"}
    /\ FileOf(Observed, tasks[t].key).Log = p
    /\ tasks[t].wgen = fs[p].gen

\* an event is queued for every watcher of p (a run in which inotify merges
\* the event with an identical unread one is this run without its last cycle)
Deliver(p, ev) ==
    [t \in 1..Len(tasks) |->
        IF Watching(t, p)
        THEN [tasks[t] EXCEPT !.events = Append(@, ev)]
        ELSE tasks[t]]

\* the paths of the configured files: the environment of the model acts on
\* these only
LogPaths == {FileOf(Observed, k).Log : k \in FileKeys(Observed)} \cap AbsPaths

\* a process appends a line to a log file
EnvWrite(p, line) ==
    /\ ~panicked /\ p \in LogPaths /\ fs[p].exists
    /\ quota.lines > 0
    /\ quota' = [quota EXCEPT !.lines = @ - 1]
    /\ fs' = [fs EXCEPT ![p].lines = Append(@, line)]
    /\ tasks' = Deliver(p, "modify")
    /\ UNCHANGED <<Observed, Running, group, closed, starts, finish, ctl, ret,
                   now, outbox, sent, streak, panicked>>
    /\ UNCHANGED <<Sender, Storage, Backend, conf>>
    /\ UNCHANGED <<calls, pool>>

\* the attributes of a log file change (chmod, touch)
EnvAttrib(p) ==
    /\ ~panicked /\ p \in LogPaths /\ fs[p].exists
    /\ quota.attribs > 0
    /\ quota' = [quota EXCEPT !.attribs = @ - 1]
    /\ tasks' = Deliver(p, "attrib")
    /\ UNCHANGED <<Observed, Running, group, closed, starts, finish, ctl, ret,
                   fs, now, outbox, sent, streak, panicked>>
    /\ UNCHANGED <<Sender, Storage, Backend, conf>>
    /\ UNCHANGED <<calls, pool>>

\* a log file is removed or moved away
EnvRemove(p) ==
    /\ ~panicked /\ p \in LogPaths /\ fs[p].exists
    /\ quota.attribs > 0
    /\ quota' = [quota EXCEPT !.attribs = @ - 1]
    /\ fs' = [fs EXCEPT ![p].exists = FALSE, ![p].lines = <<>>]
    /\ tasks' = Deliver(p, "attrib")
    /\ UNCHANGED <<Observed, Running, group, closed, starts, finish, ctl, ret,
                   now, outbox, sent, streak, panicked>>
    /\ UNCHANGED <<Sender, Storage, Backend, conf>>
    /\ UNCHANGED <<calls, pool>>

\* a log file is created anew (a new inode)
EnvCreate(p) ==
    /\ ~panicked /\ p \in LogPaths /\ ~fs[p].exists
    /\ fs' = [fs EXCEPT ![p].exists = TRUE, ![p].gen = @ + 1]
    /\ UNCHANGED <<Observed, Running, group, tasks, closed, starts, finish,
                   ctl, ret, now, quota, outbox, sent, streak, panicked>>
    /\ UNCHANGED <<Sender, Storage, Backend, conf>>
    /\ UNCHANGED <<calls, pool>>

\* a log file is truncated to no line (as by copytruncate): IN_MODIFY
EnvTruncate(p) ==
    /\ ~panicked /\ p \in LogPaths /\ fs[p].exists
    /\ quota.cuts > 0
    /\ quota' = [quota EXCEPT !.cuts = @ - 1]
    /\ fs' = [fs EXCEPT ![p].lines = <<>>]
    /\ tasks' = Deliver(p, "modify")
    /\ UNCHANGED <<Observed, Running, group, closed, starts, finish, ctl, ret,
                   now, outbox, sent, streak, panicked>>
    /\ UNCHANGED <<Sender, Storage, Backend, conf>>
    /\ UNCHANGED <<calls, pool>>

\* whether an IN_ATTRIB event would be queued for Watch goroutine t: inotify
\* merges an event with an identical one at the end of the queue
Touched(t, p) ==
    /\ Watching(t, p)
    /\ IF tasks[t].events = <<>> THEN TRUE
       ELSE tasks[t].events[Len(tasks[t].events)] # "attrib"

\* the attributes of a log file change, any number of times
EnvTouch(p) ==
    /\ ~panicked /\ p \in LogPaths /\ fs[p].exists
    /\ \E t \in 1..Len(tasks) : Touched(t, p)
    /\ tasks' = [t \in 1..Len(tasks) |->
                    IF Touched(t, p)
                    THEN [tasks[t] EXCEPT !.events = Append(@, "attrib")]
                    ELSE tasks[t]]
    /\ UNCHANGED <<Observed, Running, group, closed, starts, finish, ctl, ret,
                   fs, now, quota, outbox, sent, streak, panicked>>
    /\ UNCHANGED <<Sender, Storage, Backend, conf>>
    /\ UNCHANGED <<calls, pool>>

\* a second passes
Tick ==
    /\ ~panicked /\ starts > 0
    /\ quota.ticks > 0
    /\ quota' = [quota EXCEPT !.ticks = @ - 1]
    /\ now' = now + 1
    /\ UNCHANGED <<Observed, Running, group, tasks, closed, starts, finish,
                   ctl, ret, fs, outbox, sent, streak, panicked>>
    /\ UNCHANGED <<Sender, Storage, Backend, conf>>
    /\ UNCHANGED <<calls, pool>>

\* ------------------------------------------------------------ the scenarios
Quota(lines, attribs, nstarts, ticks) ==
    [lines |-> lines, attribs |-> attribs, starts |-> nstarts, ticks |-> ticks,
     inits |-> IF nstarts > 1 THEN nstarts - 1 ELSE 0, edits |-> 0, cuts |-> 0]

OneFile(f) == <<NewService("s1", <<f>>)>>

\* one valid file over the settings File.Check depends on, with a period of
\* two seconds; its lines grow and the clock runs
CheckScenarios ==
    {[obs |-> OneFile(NewFile("/a", "m", b, inc, lim, 2)),
      quota |-> Quota(IF inc THEN MaxLines ELSE SideLines, 0, 1, MaxTime)] :
        b \in {1, 2}, inc \in BOOLEAN, lim \in {0, 1}}

\* a period of 0 seconds
ZeroScenarios ==
    {[obs |-> OneFile(NewFile("/a", "m", 1, FALSE, 1, 0)),
      quota |-> Quota(1, 0, 1, 0)]}

\* one valid file whose attributes change or that is removed
RotateScenarios ==
    {[obs |-> OneFile(NewFile("/a", "m", 1, TRUE, 1, 2)),
      quota |-> Quota(SideLines, MaxAttrib, 1, 0)]}

\* one valid file with one line to come, watched again after a Stop
RestartScenarios ==
    {[obs |-> OneFile(NewFile("/a", "m", 1, TRUE, 1, 2)),
      quota |-> Quota(1, 0, MaxStarts, SideTime)]}

\* two services with three files, valid or invalid in each way Validate
\* knows ("/c" does not exist until it is created), no service, and a
\* service without files
StartScenarios ==
    {[obs |-> <<NewService("s1", <<NewFile("/a", pat, 1, FALSE, 1, 2),
                                   NewFile(log, ".", 1, FALSE, 1, 2)>>),
                NewService("s2", <<NewFile("/c", "m", 1, FALSE, 1, 2)>>)>>,
      quota |-> Quota(1, 0, 1, 0)] :
        pat \in {"m", "", "**"}, log \in {"/b", "rel"}}
    \cup {[obs |-> <<>>, quota |-> Quota(0, 0, 1, 0)],
          [obs |-> <<NewService("s1", <<>>)>>, quota |-> Quota(0, 0, 1, 0)]}

\* pre, then k lines "m"
Filled(pre, k) == pre \o [i \in 1..k |-> "m"]

\* one valid file that has lines before it is watched: a non-matching and an
\* empty line or none, then up to MaxMatches matching lines; two more lines
\* are appended
ScanScenarios ==
    {[obs |-> OneFile(NewFile("/a", pat, 1, FALSE, 1, 2)),
      quota |-> Quota(2, 0, 1, 0),
      content |-> Filled(pre, k)] :
        pat \in {"m", "."}, pre \in {<<>>, <<"n", "">>}, k \in 0..MaxMatches}

\* two valid files of one service, one of which may be removed
PairScenarios ==
    {[obs |-> <<NewService("s1", <<NewFile("/a", "m", 1, FALSE, 1, 2),
                                   NewFile("/b", "m", 1, FALSE, 1, 2)>>)>>,
      quota |-> Quota(1, MaxAttrib, 1, 0)]}

\* a sender with the four mandatory fields
FullSender == [user |-> "u", password |-> "p", host |-> "h", addr |-> "a"]

\* the nil map of a LogChecker that New() made
NoSender == [k \in {} |-> ""]

\* the configuration file that holds the services obs, a full sender and the
\* memory storage
ConfOf(obs) ==
    [sender |-> FullSender, storage |-> "memory",
     observed |-> [i \in 1..Len(obs) |->
                     [Name |-> obs[i].Name,
                      Files |-> [j \in 1..Len(obs[i].Files) |->
                                    JSON(obs[i].Files[j])]]]]

\* a scenario that begins with New(): nothing is loaded, the configuration
\* file holds c
Fresh0(c, q) == [obs |-> <<>>, quota |-> q, conf |-> c]

\* New(), then AddService and RemoveService calls; Start and Stop may come
\* between them
EditScenarios ==
    {Fresh0(ConfOf(<<>>), [Quota(0, 0, 1, 0) EXCEPT !.edits = MaxEdits])}

\* one valid file with one line to come, and two AddService or RemoveService
\* calls at any time
RunEditScenarios ==
    {[obs |-> OneFile(NewFile("/a", "m", 1, FALSE, 1, 2)),
      quota |-> [Quota(1, 0, 1, 0) EXCEPT !.edits = 2]]}

\* New(), then InitConfig of a file in which two services have one name, or
\* one has the empty name, then two AddService or RemoveService calls
DupScenarios ==
    {Fresh0(ConfOf(obs), [Quota(0, 0, 0, 0) EXCEPT !.inits = 1, !.edits = 2]) :
        obs \in {<<NewService("s2", <<>>), NewService("s2", <<>>)>>,
                 <<NewService("", <<>>), NewService("s3", <<>>)>>}}

\* New(), then InitConfig of a file with one service and one file, over the
\* paths and patterns File.Validate tells apart, then a Start
FileScenarios ==
    {Fresh0(ConfOf(OneFile(NewFile(log, pat, 1, FALSE, 1, 2))),
            [Quota(1, 0, 1, 0) EXCEPT !.inits = 1]) :
        log \in {"/a", "/c", "rel"}, pat \in {"m", "", "**"}}

\* the senders of the model: full, without "addr", with an empty "host",
\* with nothing but "password"
Senders ==
    {FullSender,
     [user |-> "u", password |-> "p", host |-> "h"],
     [user |-> "u", password |-> "p", host |-> "", addr |-> "a"],
     [password |-> "p"]}

\* New(), then InitConfig of a file over the senders and storages
\* LogChecker.Validate tells apart, with a valid or an invalid file or two
\* services of one name
SenderScenarios ==
    {Fresh0([ConfOf(obs) EXCEPT !.sender = snd, !.storage = sto],
            [Quota(0, 0, 0, 0) EXCEPT !.inits = 1]) :
        obs \in {OneFile(NewFile("/a", "m", 1, FALSE, 1, 2)),
                 OneFile(NewFile("/a", "", 1, FALSE, 1, 2)),
                 <<NewService("s2", <<>>), NewService("s2", <<>>)>>},
        snd \in Senders, sto \in {"memory", "redis", ""}}

\* one valid file that grows and is truncated
TruncScenarios ==
    {[obs |-> OneFile(NewFile("/a", "m", 1, FALSE, 1, 2)),
      quota |-> [Quota(2, 0, 1, 0) EXCEPT !.cuts = MaxCuts]]}

Scenarios ==
    CheckScenarios \cup ZeroScenarios \cup RotateScenarios
        \cup RestartScenarios \cup StartScenarios
        \cup ScanScenarios \cup PairScenarios
        \cup EditScenarios \cup RunEditScenarios \cup DupScenarios
        \cup FileScenarios \cup SenderScenarios \cup TruncScenarios

\* the lines "/a" holds at the beginning of a scenario
Content(sc) == IF "content" \in DOMAIN sc THEN sc.content ELSE <<>>

\* the state a scenario begins in: New(), or the state InitConfig left when
\* it read the services of the scenario
InitOf(sc) ==
    /\ Observed = sc.obs /\ quota = sc.quota
    /\ fs = [p \in AbsPaths |->
                [exists |-> p # "/c", gen |-> 1,
                 lines |-> IF p = "/a" THEN Content(sc) ELSE <<>>]]
    /\ conf = IF "conf" \in DOMAIN sc THEN sc.conf ELSE ConfOf(sc.obs)
    /\ Sender = IF "conf" \in DOMAIN sc THEN NoSender ELSE FullSender
    /\ Storage = IF "conf" \in DOMAIN sc THEN "" ELSE "memory"
    /\ Backend = IF "conf" \notin DOMAIN sc
                    /\ LoggerValidate(Observed, Sender, Storage) = "ok"
                 THEN BackendOf(Storage) ELSE NoBackend
    /\ Running = initTime
    /\ group = 0
    /\ tasks = <<>>
    /\ closed = {}
    /\ starts = 0
    /\ finish = 0
    /\ ctl = "idle"
    /\ ret = [op |-> "none", err |-> "none", watched |-> 0]
    /\ now = 0
    /\ outbox = 0
    /\ sent = [k \in FileKeys(Observed) \cup FileKeys(conf.observed) |-> <<>>]
    /\ streak = [k \in FileKeys(Observed) \cup FileKeys(conf.observed) |-> 0]
    /\ panicked = FALSE
    /\ Completed = TRUE /\ Finished = TRUE /\ InWork = 0
    /\ runs = <<>> /\ sleeps = {} /\ refused = 0

Init == \E sc \in Scenarios : InitOf(sc) /\ calls = <<>>

Next ==
    \/ Start
    \/ InitConfig
    \/ \E serv \in Services : AddService(serv)
    \/ \E serv \in Services : RemoveService(serv)
    \/ StopCall
    \/ StopReturn
    \/ \E t \in 1..Len(tasks) : WatchInit(t)
    \/ \E t \in 1..Len(tasks) : WatchFinish(t)
    \/ \E t \in 1..Len(tasks) : WatchEvent(t)
    \/ \E t \in 1..Len(tasks) : WatchError(t)
    \/ \E t \in 1..Len(tasks) : IsMoved(t)
    \/ \E t \in 1..Len(tasks) : Check(t)
    \/ Notify
    \/ \E p \in AbsPaths, line \in Lines : EnvWrite(p, line)
    \/ \E p \in AbsPaths : EnvAttrib(p)
    \/ \E p \in AbsPaths : EnvRemove(p)
    \/ \E p \in AbsPaths : EnvCreate(p)
    \/ \E p \in AbsPaths : EnvTruncate(p)
    \/ Tick

Spec == Init /\ [][Next]_vars

\* ---------------------------------------------------------------- liveness
\* two valid files of one service
LiveFiles == <<NewFile("/a", "m", 1, FALSE, 1, 2),
               NewFile("/b", "m", 1, FALSE, 1, 2)>>

\* a line that does not match is written to one of the files, and the
\* attributes of both change without end
LiveScenarios ==
    {[obs |-> <<NewService("s1", LiveFiles)>>, quota |-> Quota(1, 0, 1, 0)]}

LiveInit == \E sc \in LiveScenarios : InitOf(sc) /\ calls = <<>>

LiveNext ==
    \/ Start
    \/ StopCall
    \/ StopReturn
    \/ \E t \in 1..Len(tasks) : WatchInit(t)
    \/ \E t \in 1..Len(tasks) : WatchFinish(t)
    \/ \E t \in 1..Len(tasks) : WatchEvent(t)
    \/ \E t \in 1..Len(tasks) : WatchError(t)
    \/ \E t \in 1..Len(tasks) : IsMoved(t)
    \/ \E t \in 1..Len(tasks) : Check(t)
    \/ \E p \in AbsPaths : EnvWrite(p, "n")
    \/ \E p \in AbsPaths : EnvTouch(p)

\* the Watch goroutines there can be: one per file
TaskIds == 1..Len(LiveFiles)

\* the scheduler runs every goroutine that can run: a Watch gets its
\* watcher, IsMoved wakes from its sleep and Check ends.  The select of
\* Watch chooses among its ready cases at random, so the finish case, ready
\* each time the select is reached once the channel is closed, is chosen in
\* the end: strong fairness
Fairness ==
    \A t \in TaskIds :
        /\ WF_vars(t \in DOMAIN tasks /\ WatchInit(t))
        /\ WF_vars(t \in DOMAIN tasks /\ IsMoved(t))
        /\ WF_vars(t \in DOMAIN tasks /\ Check(t))
        /\ SF_vars(t \in DOMAIN tasks /\ WatchFinish(t))

LiveSpec == LiveInit /\ [][LiveNext]_vars /\ Fairness

\* ------------------------------------------------- concurrent control calls
\* the goroutines that call Start and Stop without waiting for one another
MaxCallers == 2

Callers == 1..MaxCallers

\* a caller that is in no call: finish is the channel its latest Start
\* returned (0: none), arg the channel it passed to Stop
NewCaller ==
    [pc |-> "idle", finish |-> 0, arg |-> 0,
     ret |-> [op |-> "none", err |-> "none"]]

\* LogChecker.Start up to and with its IsWorking test
StartEnter(c) ==
    /\ ~panicked /\ calls[c].pc = "idle"
    /\ IF Running # initTime
       THEN /\ calls' = [calls EXCEPT ![c].ret =
                            [op |-> "Start", err |-> "AlreadyRunning"]]
            /\ UNCHANGED quota
       ELSE /\ quota.starts > 0
            /\ quota' = [quota EXCEPT !.starts = @ - 1]
            /\ calls' = [calls EXCEPT ![c].pc = "start"]
    /\ UNCHANGED <<Observed, Running, group, tasks, closed, starts, finish,
                   ctl, ret, fs, now, outbox, sent, streak, panicked>>
    /\ UNCHANGED <<Sender, Storage, Backend, conf>>
    /\ UNCHANGED pool

\* LogChecker.Start from `logger.Running = time.Now()` to its return
StartBody(c) ==
    /\ ~panicked /\ calls[c].pc = "start"
    /\ LET keys == ValidKeys(Observed, 1, 1)
           ch == starts + 1
       IN  /\ Running' = now
           /\ Observed' = [i \in 1..Len(Observed) |->
                  [Observed[i] EXCEPT
                      !.Files = StartFiles(Observed[i].Files, now)]]
           /\ tasks' = tasks \o [n \in 1..Len(keys) |-> NewTask(keys[n], ch)]
           /\ starts' = ch
           /\ streak' = [k \in DOMAIN streak |->
                  IF k \in FileKeys(Observed)
                     /\ FileValidate(FileOf(Observed, k)) = "nil"
                  THEN 0 ELSE streak[k]]
           /\ calls' = [calls EXCEPT
                  ![c].pc = "idle", ![c].finish = ch,
                  ![c].ret = [op |-> "Start",
                              err |-> IF Len(keys) = 0 THEN "EmptyTaskSet"
                                      ELSE "ok"]]
    /\ UNCHANGED <<group, closed, finish, ctl, ret, fs, now, quota, outbox,
                   sent, panicked>>
    /\ UNCHANGED <<Sender, Storage, Backend, conf>>
    /\ UNCHANGED pool

\* LogChecker.Stop, called with channel h, up to and with its IsWorking test
StopEnter(c, h) ==
    /\ ~panicked /\ calls[c].pc = "idle"
    /\ calls' = [calls EXCEPT ![c] =
           IF Running = initTime
           THEN [@ EXCEPT !.ret = [op |-> "Stop", err |-> "NotRunning"]]
           ELSE [@ EXCEPT !.pc = "close", !.arg = h]]
    /\ UNCHANGED <<Observed, Running, group, tasks, closed, starts, finish,
                   ctl, ret, fs, now, quota, outbox, sent, streak, panicked>>
    /\ UNCHANGED <<Sender, Storage, Backend, conf>>
    /\ UNCHANGED pool

\* close(finish) in LogChecker.Stop: closing a closed channel panics
StopClose(c) ==
    /\ ~panicked /\ calls[c].pc = "close"
    /\ IF calls[c].arg \in closed
       THEN /\ panicked' = TRUE
            /\ UNCHANGED <<closed, calls>>
       ELSE /\ closed' = closed \cup {calls[c].arg}
            /\ calls' = [calls EXCEPT ![c].pc = "wait"]
            /\ UNCHANGED panicked
    /\ UNCHANGED <<Observed, Running, group, tasks, starts, finish,
                   ctl, ret, fs, now, quota, outbox, sent, streak>>
    /\ UNCHANGED <<Sender, Storage, Backend, conf>>
    /\ UNCHANGED pool

\* LogChecker.Stop from the return of group.Wait() on
StopWait(c) ==
    /\ ~panicked /\ calls[c].pc = "wait"
    /\ group = 0
    /\ Running' = initTime
    /\ calls' = [calls EXCEPT ![c].pc = "idle",
                              ![c].ret = [op |-> "Stop", err |-> "ok"]]
    /\ UNCHANGED <<Observed, group, tasks, closed, starts, finish,
                   ctl, ret, fs, now, quota, outbox, sent, streak, panicked>>
    /\ UNCHANGED <<Sender, Storage, Backend, conf>>
    /\ UNCHANGED pool

\* the channels the callers hold
Handles == {calls[c].finish : c \in Callers} \ {0}

\* one valid file; the callers may make MaxStarts calls of Start that pass
\* the running test
RaceScenarios ==
    {[obs |-> OneFile(NewFile("/a", "m", 1, FALSE, 1, 2)),
      quota |-> Quota(1, 0, MaxStarts, 0)]}

RaceInit ==
    \E sc \in RaceScenarios :
        InitOf(sc) /\ calls = [c \in Callers |-> NewCaller]

RaceNext ==
    \/ \E c \in Callers : StartEnter(c)
    \/ \E c \in Callers : StartBody(c)
    \/ \E c \in Callers : \E h \in Handles : StopEnter(c, h)
    \/ \E c \in Callers : StopClose(c)
    \/ \E c \in Callers : StopWait(c)
    \/ \E t \in 1..Len(tasks) : WatchInit(t)
    \/ \E t \in 1..Len(tasks) : WatchFinish(t)
    \/ \E t \in 1..Len(tasks) : WatchEvent(t)
    \/ \E t \in 1..Len(tasks) : Check(t)
    \/ \E p \in AbsPaths : EnvWrite(p, "m")

RaceSpec == RaceInit /\ [][RaceNext]_vars

\* --------------------------------------------------- the worker-pool design
\* MaxPollers: the maximum number of task handlers
MaxPollers == 5

\* the Start calls a scenario of the worker-pool design allows
MaxRuns == 2

\* the tasks the Pollers of a scenario receive before Stop is called (after
\* Stop the code lets each task be received once more at most)
MaxPolls == 2

\* a File and a Service of the worker-pool design, as far as Start, Poller
\* and Sleep use them
PoolFile(log) == [Log |-> log, Pos |-> 0]

PoolService(name, logs) ==
    [Name |-> name, Files |-> [j \in 1..Len(logs) |-> PoolFile(logs[j])]]

\* File.Validate of the worker-pool design: an absolute path that exists
PoolFileValidate(f) == IsAbs(f.Log) /\ StatOk(f.Log)

\* the tasks the feeder goroutine of Start sends, in its order, from file j
\* of service i on: the files that pass Validate
RECURSIVE Feed(_, _, _)
Feed(obs, i, j) ==
    IF i > Len(obs) THEN <<>>
    ELSE IF j > Len(obs[i].Files) THEN Feed(obs, i + 1, 1)
    ELSE IF PoolFileValidate(obs[i].Files[j])
         THEN <<(<<i, j>>)>> \o Feed(obs, i, j + 1)
         ELSE Feed(obs, i, j + 1)

\* a Poller goroutine as Start spawns it: logger is whether its variable
\* `logger` is set, task the task it holds, reg the value of InWork it read
\* last.  A Poller that ends blocks in `finished <- true` ("offer") or
\* returns ("done")
NewPoller == [pc |-> "recv", logger |-> FALSE, task |-> <<>>, reg |-> 0]

\* poolSize of Start
PoolSize(obs) == IF Len(obs) < MaxPollers THEN Len(obs) ELSE MaxPollers

\* what a Start that goes ahead creates: the pending channel, the feeder
\* goroutine with the tasks it has to send, and the Pollers
NewRun(obs) ==
    [pending |-> "open", feed |-> Feed(obs, 1, 1),
     pollers |-> [i \in 1..PoolSize(obs) |-> NewPoller]]

\* the variables of the watcher design that the worker-pool design leaves
watch == <<Running, group, tasks, closed, starts, finish, ctl, ret, fs, now,
           outbox, sent, streak, Sender, Storage, Backend, conf, calls>>

\* the Pollers of run r
PollerIds(r) == 1..Len(runs[r].pollers)

\* LogChecker.Stop of the worker-pool design
PoolStop ==
    /\ ~panicked
    /\ Completed' = TRUE
    /\ UNCHANGED <<Observed, quota, panicked, Finished, InWork, runs, sleeps, refused>>
    /\ UNCHANGED watch

\* LogChecker.Works
Works == (~Completed) \/ (~Finished)

\* LogChecker.Start up to its loop over `complete`: if the logger works
\* the call blocks in `finished <- false`; if not, `logger.Completed,
\* logger.Finished = false, false`, the channels, the Pollers and the feeder
\* goroutine
PoolStart ==
    /\ ~panicked
    /\ quota.starts > 0
    /\ quota' = [quota EXCEPT !.starts = @ - 1]
    /\ IF Works
       THEN /\ refused' = refused + 1
            /\ UNCHANGED <<Completed, Finished, runs>>
       ELSE /\ Completed' = FALSE /\ Finished' = FALSE
            /\ runs' = Append(runs, NewRun(Observed))
            /\ UNCHANGED refused
    /\ UNCHANGED <<Observed, panicked, InWork, sleeps>>
    /\ UNCHANGED watch

\* the Poller that has received task k and read InWork for logger.InWork++
Received(poller, k) ==
    [poller EXCEPT !.pc = "poll", !.logger = TRUE, !.task = k, !.reg = InWork]

\* what the scenario still allows after a Poller received a task
Polled(q) == IF Completed THEN q ELSE [q EXCEPT !.polls = @ - 1]

\* `t, ok := <-in` of Poller i of run r meets `pending <- &Task{...}` of the
\* feeder goroutine
PollerRecvFeed(r, i) ==
    /\ ~panicked
    /\ runs[r].pollers[i].pc = "recv"
    /\ Completed \/ quota.polls > 0
    /\ quota' = Polled(quota)
    /\ runs[r].pending = "open" /\ runs[r].feed # <<>>
    /\ runs' = [runs EXCEPT ![r].pollers[i] = Received(@, Head(runs[r].feed)),
                            ![r].feed = Tail(@)]
    /\ UNCHANGED <<Observed, panicked, Completed, Finished, InWork,
                   sleeps, refused>>
    /\ UNCHANGED watch

\* `t, ok := <-in` of Poller i of run r meets `done <- task` of Sleep s
PollerRecvSleep(r, i, s) ==
    /\ ~panicked
    /\ runs[r].pollers[i].pc = "recv"
    /\ Completed \/ quota.polls > 0
    /\ quota' = Polled(quota)
    /\ runs[r].pending = "open"
    /\ s \in sleeps /\ s.run = r /\ s.pc = "send"
    /\ runs' = [runs EXCEPT ![r].pollers[i] = Received(@, s.key)]
    /\ sleeps' = sleeps \ {s}
    /\ UNCHANGED <<Observed, panicked, Completed, Finished, InWork, refused>>
    /\ UNCHANGED watch

\* `t, ok := <-in` on the closed channel: ok is false and the loop ends
PollerRecvClosed(r, i) ==
    /\ ~panicked
    /\ runs[r].pollers[i].pc = "recv"
    /\ runs[r].pending = "closed"
    /\ runs' = [runs EXCEPT ![r].pollers[i].pc = "exit"]
    /\ UNCHANGED <<Observed, quota, panicked, Completed, Finished, InWork,
                   sleeps, refused>>
    /\ UNCHANGED watch

\* logger.InWork--: the read of InWork
PollerLoad(r, i) ==
    /\ ~panicked
    /\ runs[r].pollers[i].pc = "dec"
    /\ runs' = [runs EXCEPT ![r].pollers[i].reg = InWork,
                            ![r].pollers[i].pc = "out"]
    /\ UNCHANGED <<Observed, quota, panicked, Completed, Finished, InWork,
                   sleeps, refused>>
    /\ UNCHANGED watch

\* the write of logger.InWork++, then t.Poll() and t.QFile.Pos = pos
PollerPoll(r, i) ==
    /\ ~panicked
    /\ runs[r].pollers[i].pc = "poll"
    /\ LET k == runs[r].pollers[i].task
       IN  Observed' = [Observed EXCEPT ![k[1]].Files[k[2]].Pos =
                           Len(fs[Observed[k[1]].Files[k[2]].Log].lines)]
    /\ InWork' = runs[r].pollers[i].reg + 1
    /\ runs' = [runs EXCEPT ![r].pollers[i].pc = "dec"]
    /\ UNCHANGED <<quota, panicked, Completed, Finished, sleeps,
                   refused>>
    /\ UNCHANGED watch

\* the write of logger.InWork--, then `out <- t`, which the loop of Start
\* over `complete` receives: `go task.Sleep(pending)`
PollerOut(r, i) ==
    /\ ~panicked
    /\ runs[r].pollers[i].pc = "out"
    /\ InWork' = runs[r].pollers[i].reg - 1
    /\ sleeps' = sleeps \cup
           {[run |-> r, key |-> runs[r].pollers[i].task, pc |-> "test"]}
    /\ runs' = [runs EXCEPT ![r].pollers[i].pc = "recv",
                            ![r].pollers[i].task = <<>>]
    /\ UNCHANGED <<Observed, quota, panicked, Completed, Finished,
                   refused>>
    /\ UNCHANGED watch

\* the end of Poller: `finished <- true` if it has a logger and InWork is 0
PollerExit(r, i) ==
    /\ ~panicked
    /\ runs[r].pollers[i].pc = "exit"
    /\ runs' = [runs EXCEPT ![r].pollers[i].pc =
           IF runs[r].pollers[i].logger /\ InWork = 0 THEN "offer"
           ELSE "done"]
    /\ UNCHANGED <<Observed, quota, panicked, Completed, Finished, InWork,
                   sleeps, refused>>
    /\ UNCHANGED watch

\* Task.Sleep: `if !task.QLogChecker.Completed`; on the one side the sleep
\* of Delay seconds and the send, on the other the mutex
SleepTest(s) ==
    /\ ~panicked
    /\ s \in sleeps /\ s.pc = "test"
    /\ sleeps' = (sleeps \ {s}) \cup
           {[s EXCEPT !.pc = IF ~Completed THEN "send" ELSE "lock"]}
    /\ UNCHANGED <<Observed, quota, panicked, Completed, Finished, InWork,
                   runs, refused>>
    /\ UNCHANGED watch

\* `done <- task` of Sleep on a closed channel: panic
SleepSendClosed(s) ==
    /\ ~panicked
    /\ s \in sleeps /\ s.pc = "send"
    /\ runs[s.run].pending = "closed"
    /\ panicked' = TRUE
    /\ UNCHANGED <<Observed, quota, Completed, Finished, InWork, runs, sleeps, refused>>
    /\ UNCHANGED watch

\* `pending <- &Task{...}` of the feeder goroutine on a closed channel: panic
FeederSendClosed(r) ==
    /\ ~panicked
    /\ runs[r].feed # <<>>
    /\ runs[r].pending = "closed"
    /\ panicked' = TRUE
    /\ UNCHANGED <<Observed, quota, Completed, Finished, InWork, runs, sleeps, refused>>
    /\ UNCHANGED watch

\* the else branch of Task.Sleep, under the mutex: if Finished is not set
\* it is set and the channel is closed (closing a closed channel panics)
SleepFinish(s) ==
    /\ ~panicked
    /\ s \in sleeps /\ s.pc = "lock"
    /\ sleeps' = sleeps \ {s}
    /\ IF ~Finished
       THEN /\ Finished' = TRUE
            /\ IF runs[s.run].pending = "closed"
               THEN panicked' = TRUE /\ UNCHANGED runs
               ELSE /\ runs' = [runs EXCEPT ![s.run].pending = "closed"]
                    /\ UNCHANGED panicked
       ELSE UNCHANGED <<Finished, runs, panicked>>
    /\ UNCHANGED <<Observed, quota, Completed, InWork, refused>>
    /\ UNCHANGED watch

\* what a scenario of the worker-pool design allows: Start calls and polls
PoolQuota(n) == [starts |-> n, polls |-> MaxPolls]

\* the configurations of the worker-pool design: a service with a file that
\* fails Validate and a valid one, a service with two valid files (one
\* Poller), both started up to MaxRuns times, and two services with a valid
\* file each (two Pollers), started once
PoolScenarios ==
    {[obs |-> o, quota |-> PoolQuota(MaxRuns), conf |-> ConfOf(<<>>)] :
        o \in {<<PoolService("s1", <<"rel", "/a">>)>>,
               <<PoolService("s1", <<"/a", "/b">>)>>}}
    \cup {[obs |-> <<PoolService("s1", <<"/a">>),
                     PoolService("s2", <<"/b">>)>>,
           quota |-> PoolQuota(1), conf |-> ConfOf(<<>>)]}

\* New() and a configuration
PoolInit == \E sc \in PoolScenarios : InitOf(sc) /\ calls = <<>>

\* the Sleep goroutines there can be
SleepIds ==
    {[run |-> r, key |-> k, pc |-> pc] :
        r \in 1..MaxRuns, k \in {<<1, 1>>, <<1, 2>>, <<2, 1>>},
        pc \in {"test", "send", "lock"}}

RunIds == 1..MaxRuns

PoolNext ==
    \/ PoolStop
    \/ PoolStart
    \/ \E r \in 1..Len(runs) : \E i \in PollerIds(r) : PollerRecvFeed(r, i)
    \/ \E r \in 1..Len(runs) : \E i \in PollerIds(r) :
          \E s \in sleeps : PollerRecvSleep(r, i, s)
    \/ \E r \in 1..Len(runs) : \E i \in PollerIds(r) : PollerRecvClosed(r, i)
    \/ \E r \in 1..Len(runs) : \E i \in PollerIds(r) : PollerLoad(r, i)
    \/ \E r \in 1..Len(runs) : \E i \in PollerIds(r) : PollerPoll(r, i)
    \/ \E r \in 1..Len(runs) : \E i \in PollerIds(r) : PollerOut(r, i)
    \/ \E r \in 1..Len(runs) : \E i \in PollerIds(r) : PollerExit(r, i)
    \/ \E s \in sleeps : SleepTest(s)
    \/ \E s \in sleeps : SleepSendClosed(s)
    \/ \E s \in sleeps : SleepFinish(s)
    \/ \E r \in 1..Len(runs) : FeederSendClosed(r)

\* every goroutine that can take a step takes it in the end: the Pollers,
\* the Sleeps and the feeder
PoolFairness ==
    /\ \A r \in RunIds :
          /\ WF_vars(r \in DOMAIN runs /\ FeederSendClosed(r))
          /\ \A i \in 1..2 :
                WF_vars(/\ r \in DOMAIN runs /\ i \in PollerIds(r)
                        /\ \/ PollerRecvFeed(r, i)
                           \/ \E s \in sleeps : PollerRecvSleep(r, i, s)
                           \/ PollerRecvClosed(r, i)
                           \/ PollerLoad(r, i)
                           \/ PollerPoll(r, i)
                           \/ PollerOut(r, i)
                           \/ PollerExit(r, i))
    /\ \A s \in SleepIds :
          WF_vars(s \in sleeps /\ (SleepTest(s) \/ SleepSendClosed(s)
                                      \/ SleepFinish(s)))

PoolSpec == PoolInit /\ [][PoolNext]_vars /\ PoolFairness

\* ================================================================ properties
\* the file of key k before and after a step
Before(k) == Observed[k[1]].Files[k[2]]
After(k) == Observed'[k[1]].Files[k[2]]

\* the step hands a message about file k to the notifier
Notifies(k) == Len(sent'[k]) = Len(sent[k]) + 1

\* in this step Watch goroutine t runs File.Check on its file to the end
Cycle(t) ==
    /\ tasks[t].pc = "scan" /\ tasks'[t].pc = "select"
    /\ fs[Before(tasks[t].key).Log].exists

\* the matching lines of the file of f after line f.Pos
NewMatches(f) ==
    Cardinality({n \in (f.Pos + 1)..Len(fs[f.Log].lines) :
                    /\ fs[f.Log].lines[n] # ""
                    /\ MatchString(f.RgPattern, fs[f.Log].lines[n])})

\* the messages about file k sent in the period that begins at `start` and
\* has index `period`
SentInPeriod(k, start, period) ==
    Cardinality({n \in 1..Len(sent[k]) :
                    sent[k][n].start = start /\ sent[k][n].period = period})

\* C1: in every period of every file at most Limit messages are handed to
\* the notifier
C1_AtMostLimitPerPeriod ==
    \A k \in FileKeys(Observed) :
        \A n \in 1..Len(sent[k]) :
            SentInPeriod(k, sent[k][n].start, sent[k][n].period)
                <= Before(k).Limit

\* C2: a file with Limit = 0 never has a message handed to the notifier
C2_LimitZeroNeverNotifies ==
    \A k \in FileKeys(Observed) : Before(k).Limit = 0 => sent[k] = <<>>

\* a file as Start leaves it in a new process: no cycle has counted or sent
Fresh(k) ==
    /\ sent[k] = <<>>
    /\ Before(k).Pos = 0 /\ Before(k).Found = 0 /\ Before(k).Counter = 0
    /\ Before(k).ExtBoundary = Before(k).Boundary

\* C3: on a fresh file with Limit >= 1 a cycle that finds exactly Boundary
\* new matching lines notifies and one that finds Boundary - 1 does not; a
\* cycle notifies only if Found, the new matches added, has reached the
\* ExtBoundary the cycle began with
C3_BoundaryRoundTrip ==
    [][\A t \in 1..Len(tasks) :
        Cycle(t) =>
            LET k == tasks[t].key
                n == NewMatches(Before(k))
            IN  /\ (Fresh(k) /\ Before(k).Limit >= 1 /\ n = Before(k).Boundary
                        => Notifies(k))
                /\ (Fresh(k) /\ Before(k).Limit >= 1 /\ n = Before(k).Boundary - 1
                        => ~Notifies(k))
                /\ (Notifies(k) => After(k).Found >= Before(k).ExtBoundary)]_vars

C3_Witness ==
    \E k \in FileKeys(Observed) :
        /\ Before(k).Limit >= 1 /\ Before(k).Boundary = 2
        /\ Len(sent[k]) = 1 /\ sent[k][1].found = 2 /\ Before(k).Pos = 2

\* the messages about file k that the Watch goroutines of run r sent
RunMsgs(k, r) == SelectSeq(sent[k], LAMBDA m : m.run = r)

\* C4 as claimed: with Increase and Boundary = 1 the n-th notification of a
\* run is tested against 2^(n-1) and needs Found >= 2^(n-1)
C4_NthOfRunNeedsPower ==
    \A k \in FileKeys(Observed) :
        (Before(k).Increase /\ Before(k).Boundary = 1) =>
            \A r \in 1..starts :
                \A n \in 1..Len(RunMsgs(k, r)) :
                    /\ RunMsgs(k, r)[n].ext = 2^(n - 1)
                    /\ RunMsgs(k, r)[n].found >= 2^(n - 1)

\* C4 as amended: with Increase, ExtBoundary is Boundary doubled once per
\* notifying cycle since the last Start or cycle that did not notify, and the
\* n-th notification of such an unbroken sequence was tested against
\* Boundary * 2^(n-1) and had Found at least that
C4_Escalation ==
    \A k \in FileKeys(Observed) :
        (Before(k).Increase /\ Before(k).LogStart # initTime) =>
            /\ Before(k).ExtBoundary = Before(k).Boundary * 2^streak[k]
            /\ \A n \in 1..Len(sent[k]) :
                /\ sent[k][n].ext = Before(k).Boundary * 2^(sent[k][n].nth - 1)
                /\ sent[k][n].found >= sent[k][n].ext

C4_Witness ==
    \E k \in FileKeys(Observed) :
        /\ Before(k).Increase /\ Before(k).Boundary = 1
        /\ streak[k] = 2 /\ Before(k).ExtBoundary = 4

\* C5 as claimed: ExtBoundary changes only in a step that notifies or in a
\* Start
C5_NoDecay ==
    [][\A k \in FileKeys(Observed) :
        (starts' = starts /\ ~Notifies(k))
            => After(k).ExtBoundary = Before(k).ExtBoundary]_vars

\* C5 as amended: a cycle that runs to its end without notifying sets
\* ExtBoundary to Boundary, and only a cycle of the file or a Start changes
\* ExtBoundary (a new period or an aborted cycle does not)
C5_QuietCycleResets ==
    [][\A k \in FileKeys(Observed) :
        /\ \A t \in 1..Len(tasks) :
              (Cycle(t) /\ tasks[t].key = k /\ ~Notifies(k))
                  => After(k).ExtBoundary = Before(k).Boundary
        /\ After(k).ExtBoundary # Before(k).ExtBoundary
              => \/ starts' # starts
                 \/ \E t \in 1..Len(tasks) : Cycle(t) /\ tasks[t].key = k]_vars

C5_Witness ==
    \E k \in FileKeys(Observed) :
        /\ Before(k).Increase /\ starts = 1
        /\ sent[k] # <<>> /\ streak[k] = 0
        /\ Before(k).ExtBoundary = Before(k).Boundary

\* C6: a cycle whose period index differs from Granularity restarts Found and
\* Counter from 0 before it adds its matches and tests the threshold; a cycle
\* in the same period adds to both
C6_PeriodChangeResets ==
    [][\A t \in 1..Len(tasks) :
        Cycle(t) =>
            LET k == tasks[t].key
                f == Before(k)
                n == NewMatches(f)
                cur == (now - f.LogStart) \div f.Period
                one == IF Notifies(k) THEN 1 ELSE 0
            IN  IF cur # f.Granularity
                THEN /\ After(k).Granularity = cur
                     /\ After(k).Found = n
                     /\ After(k).Counter = one
                     /\ (Notifies(k) => n >= f.ExtBoundary)
                ELSE /\ After(k).Granularity = f.Granularity
                     /\ After(k).Found = f.Found + n
                     /\ After(k).Counter = f.Counter + one]_vars

C6_Witness ==
    \E k \in FileKeys(Observed) :
        /\ sent[k] # <<>> /\ sent[k][1].period = 0
        /\ Before(k).Granularity = 1 /\ Before(k).Counter = 0

\* C7: a Start while the process is running returns the already-running
\* error and changes nothing of the logger, its tasks or its channels
C7_StartWhileRunning ==
    [][(Running # initTime /\ ret' # ret /\ ret'.op = "Start") =>
        /\ ret'.err = "AlreadyRunning"
        /\ UNCHANGED <<Observed, Running, group, tasks, closed, starts,
                       finish, ctl>>]_vars

C7_Witness ==
    /\ ret.op = "Start" /\ ret.err = "AlreadyRunning"
    /\ Running # initTime
    /\ \E t \in 1..Len(tasks) : tasks[t].pc = "select"

\* a file passes validation: absolute existing path, pattern that compiles
ValidTarget(f) ==
    /\ f.Log \in AbsPaths /\ fs[f.Log].exists
    /\ f.Pattern \notin {"", "**"}

ValidTargets == {k \in FileKeys(Observed) : ValidTarget(Before(k))}

\* C8: a Start of a process that is not running returns the empty-task-queue
\* error exactly if no file passes validation, and then spawns no Watch
C8_EmptyTaskSet ==
    [][(Running = initTime /\ starts' = starts + 1) =>
        /\ ret'.op = "Start"
        /\ ret'.err = "EmptyTaskSet" <=> ValidTargets = {}
        /\ ValidTargets = {} => tasks' = tasks]_vars

C8_Witness ==
    /\ ret.op = "Start" /\ ret.err = "EmptyTaskSet"
    /\ FileKeys(Observed) # {} /\ tasks = <<>>

\* C9: IsWorking is false initially, after a Start that failed with the
\* empty-task-queue error and after a Stop that returned nil, and true after
\* a Start that returned nil
C9_RunningExactly ==
    /\ ret.op = "none" => Running = initTime
    /\ (ret.op = "Start" /\ ret.err = "EmptyTaskSet") => Running = initTime
    /\ (ret.op = "Stop" /\ ret.err = "ok") => Running = initTime
    /\ (ret.op = "Start" /\ ret.err = "ok") => Running # initTime

\* C10: a Start that passes the running test spawns one Watch per file that
\* passes validation and none for the others, after the tasks there were,
\* and returns nil if at least one file passes
C10_OneWatchPerValidFile ==
    [][starts' = starts + 1 =>
        /\ Len(tasks') = Len(tasks) + Cardinality(ValidTargets)
        /\ SubSeq(tasks', 1, Len(tasks)) = tasks
        /\ \A k \in FileKeys(Observed) :
              Cardinality({n \in (Len(tasks) + 1)..Len(tasks') :
                              tasks'[n].key = k /\ tasks'[n].pc = "init"})
                  = IF k \in ValidTargets THEN 1 ELSE 0
        /\ ValidTargets # {} => ret'.err = "ok"]_vars

C10_Witness ==
    /\ ret.op = "Start" /\ ret.err = "ok" /\ ret.watched = 2
    /\ Len(tasks) = 2 /\ Cardinality(FileKeys(Observed)) = 3

\* C11: after a Stop that returned nil, every Watch goroutine of the Start
\* before it has returned
C11_StopJoinsWatches ==
    (ctl = "idle" /\ ret.op = "Stop" /\ ret.err = "ok") =>
        \A t \in 1..Len(tasks) :
            tasks[t].finish = finish => tasks[t].pc = "done"

\* C12: while the process is not running no step closes a finish channel,
\* and a Stop returns the not-running error and changes nothing of the
\* logger, its tasks or its channels
C12_StopWhileStopped ==
    [][(Running = initTime /\ ctl = "idle") =>
        /\ closed' = closed /\ ctl' = ctl
        /\ (ret' # ret /\ ret'.op = "Stop") =>
              /\ ret'.err = "NotRunning"
              /\ UNCHANGED <<Observed, Running, group, tasks, starts,
                             finish>>]_vars

C12_Witness ==
    /\ ret.op = "Stop" /\ ret.err = "NotRunning"
    /\ Running = initTime /\ starts >= 1 /\ finish \in closed
    /\ ~panicked

\* C13: when the latest control call was a Stop that returned (nil or the
\* not-running error) or an InitConfig that was accepted after one, the next
\* InitConfig or Start does not fail with the already-running error, each
\* time the sequence Stop, InitConfig, Start is repeated
C13_Restartable ==
    [][(/\ \/ ret.op = "Stop"
           \/ ret.op = "InitConfig" /\ ret.err # "AlreadyRunning"
        /\ ret' # ret
        /\ ret'.op \in {"InitConfig", "Start"})
            => ret'.err # "AlreadyRunning"]_vars

C13_Witness ==
    /\ starts = MaxStarts /\ quota.inits = 0
    /\ ret.op = "Start" /\ ret.err = "ok"
    /\ \E t \in 1..Len(tasks) : tasks[t].finish = starts /\ tasks[t].pc = "select"

\* in this step Watch goroutine t leaves IsMoved
Moved(t) == tasks[t].pc = "moved" /\ tasks'[t].pc # "moved"

\* the non-empty lines of the file of f that match its pattern
AllMatches(f) ==
    Cardinality({n \in 1..Len(fs[f.Log].lines) :
                    /\ fs[f.Log].lines[n] # ""
                    /\ MatchString(f.RgPattern, fs[f.Log].lines[n])})

C15_LostWatchEndsAlone ==
    [][\A t \in 1..Len(tasks) :
        (Moved(t) /\ ~fs[Before(tasks[t].key).Log].exists) =>
            /\ tasks'[t].pc = "done"
            /\ \A u \in 1..Len(tasks) : u # t => tasks'[u] = tasks[u]
            /\ UNCHANGED <<Observed, Running, group, closed, ctl, ret, fs,
                           outbox, sent, streak, panicked>>]_vars

C15_Witness ==
    \E t, u \in 1..Len(tasks) :
        /\ tasks[t].pc = "done" /\ tasks[t].finish \notin closed
        /\ ~fs[Before(tasks[t].key).Log].exists
        /\ tasks[u].pc = "select" /\ tasks[u].err = "nil"
        /\ Before(tasks[u].key).Pos = 1
        /\ Running # initTime /\ ~panicked

FoundBase(f) ==
    IF (now - f.LogStart) \div f.Period # f.Granularity THEN 0 ELSE f.Found

\* the message the step hands to the notifier about file k
NewMessage(k) == sent'[k][Len(sent'[k])]

\* C17: a cycle on a file that has no line after Pos, as after a cycle that
\* read the same file, adds no match to Found, leaves Pos as it is and, if it
\* notifies, reports no line
C17_RescanFindsNothing ==
    [][\A t \in 1..Len(tasks) :
        LET k == tasks[t].key
            f == Before(k)
        IN  (Cycle(t) /\ f.Pos = Len(fs[f.Log].lines)) =>
                /\ After(k).Pos = f.Pos
                /\ After(k).Found = FoundBase(f)
                /\ Notifies(k) => (/\ NewMessage(k).matched = 0
                                   /\ NewMessage(k).lines = <<>>)]_vars

C17_Witness ==
    \E k \in FileKeys(Observed) :
        /\ Len(sent[k]) = 2
        /\ fs[Before(k).Log].lines = <<"m", "m">> /\ fs[Before(k).Log].gen = 1
        /\ sent[k][1].matched = 2 /\ sent[k][2].matched = 0
        /\ Before(k).Pos = 2

Verbatim(msg) == SelectSeq(msg.lines, LAMBDA l : l.n # 0)
Markers(msg) == SelectSeq(msg.lines, LAMBDA l : l.n = 0)

\* C19: every message holds the first maxMsgLines matched lines of its cycle
\* and no more, followed by one marker exactly if the cycle matched more
C19_SampleFirstTen ==
    \A k \in FileKeys(Observed) :
        \A n \in 1..Len(sent[k]) :
            LET msg == sent[k][n]
            IN  /\ Len(Verbatim(msg)) =
                      IF msg.matched > maxMsgLines THEN maxMsgLines
                      ELSE msg.matched
                /\ Len(Markers(msg)) =
                      IF msg.matched > maxMsgLines THEN 1 ELSE 0
                /\ Markers(msg) # <<>> => msg.lines[Len(msg.lines)].n = 0

\* C20: a cycle that notifies leaves its Watch in the select with the
\* delivery still in flight, and the end of a delivery, failed or not, takes
\* one delivery out of flight and changes nothing else: no new delivery, no
\* field of a file, no Watch goroutine, not Running
C20_FireAndForget ==
    [][/\ \A t \in 1..Len(tasks) :
            (Cycle(t) /\ Notifies(tasks[t].key)) =>
                (tasks'[t].pc = "select" /\ outbox' = outbox + 1)
       /\ outbox' < outbox =>
            /\ outbox' = outbox - 1
            /\ UNCHANGED <<Observed, Running, group, tasks, closed, starts,
                           finish, ctl, ret, fs, now, sent, streak,
                           panicked>>]_vars

C20_Witness ==
    \E t \in 1..Len(tasks) :
        /\ Len(sent[tasks[t].key]) = 2 /\ outbox = 1
        /\ tasks[t].pc = "select" /\ tasks[t].err = "nil"
        /\ Running # initTime /\ ~panicked

\* C21: once the finish channel of a Watch goroutine is closed, the
\* goroutine returns in the end, wherever it was (before its watcher, in the
\* select, in the sleep of IsMoved, in Check) and though events keep coming
C21_ShutdownObserved ==
    \A t \in TaskIds :
        (t \in DOMAIN tasks /\ tasks[t].finish \in closed)
            ~> (t \in DOMAIN tasks /\ tasks[t].pc = "done")

C21_Witness ==
    /\ finish \in closed /\ ret.op = "Stop" /\ ret.err = "ok"
    /\ Len(tasks) = 2
    /\ \A t \in 1..Len(tasks) : tasks[t].pc = "done"
    /\ \E k \in FileKeys(Observed) : Before(k).Pos = 1

\* the names of a list of services
NameSet(obs) == {obs[i].Name : i \in 1..Len(obs)}

\* the names are not empty and no two services share one
NamesOk(obs) ==
    /\ "" \notin NameSet(obs)
    /\ Cardinality(NameSet(obs)) = Len(obs)

\* the step is a call of AddService or of RemoveService
Edit(op) == quota'.edits = quota.edits - 1 /\ ret'.op = op

\* C22: while no configuration has been read the names of the services are
\* non-empty and distinct; a call of AddService or RemoveService on a stopped
\* process keeps them so, and AddService returns an error and leaves the list
\* as it is if the name is empty or in the list, and else returns nil and
\* appends the service, whose name is then in the list
C22_AddKeepsNamesDistinct ==
    /\ [](DOMAIN Sender = {} => NamesOk(Observed))
    /\ [][(Running = initTime /\ NamesOk(Observed)) =>
            /\ (Edit("AddService") \/ Edit("RemoveService"))
                  => NamesOk(Observed')
            /\ Edit("AddService") =>
                  IF ret'.name = "" \/ ret'.name \in NameSet(Observed)
                  THEN ret'.err # "ok" /\ Observed' = Observed
                  ELSE /\ ret'.err = "ok"
                       /\ Len(Observed') = Len(Observed) + 1
                       /\ SubSeq(Observed', 1, Len(Observed)) = Observed
                       /\ Observed'[Len(Observed')].Name = ret'.name]_vars

C22_Witness ==
    /\ DOMAIN Sender = {} /\ Running = initTime
    /\ Len(Observed) = 2 /\ quota.edits = 0
    /\ ret.op = "AddService" /\ ret.err = "AlreadyUsed"

\* obs without its entry at place n
Without(obs, n) == SubSeq(obs, 1, n - 1) \o SubSeq(obs, n + 1, Len(obs))

\* the places of obs that hold a service of that name
Places(obs, name) == {i \in 1..Len(obs) : obs[i].Name = name}

\* C23 as claimed: RemoveService of a name that is not in the list returns an
\* error and leaves the list; of a name that is in it returns nil, removes
\* one entry of that name and keeps the others in order, after which the name
\* is not in the list and the next call, if it is an AddService of that
\* name, returns nil
C23_RemoveRoundTrip ==
    [][/\ (Running = initTime /\ Edit("RemoveService")) =>
            IF Places(Observed, ret'.name) = {}
            THEN ret'.err # "ok" /\ Observed' = Observed
            ELSE /\ ret'.err = "ok"
                 /\ \E n \in Places(Observed, ret'.name) :
                        Observed' = Without(Observed, n)
                 /\ ret'.name \notin NameSet(Observed')
       /\ (/\ Running = initTime
           /\ ret.op = "RemoveService" /\ ret.err = "ok"
           /\ Edit("AddService") /\ ret'.name = ret.name)
            => ret'.err = "ok"]_vars

\* C23 as amended: RemoveService of a name that is not in the list returns an
\* error and leaves the list; of a name that is in it returns nil and removes
\* the first entry of that name, keeping the others in order; if no other
\* entry had the name it is then not in the list, and the next call, if it
\* is an AddService of that name and the name is not empty, returns nil and
\* appends the service
C23_RemoveFirst ==
    [][/\ (Running = initTime /\ Edit("RemoveService")) =>
            LET hit == Places(Observed, ret'.name)
            IN  IF hit = {}
                THEN ret'.err = "NotFound" /\ Observed' = Observed
                ELSE /\ ret'.err = "ok"
                     /\ \E n \in hit :
                           /\ \A h \in hit : n <= h
                           /\ Observed' = Without(Observed, n)
                     /\ Cardinality(hit) = 1
                           => ret'.name \notin NameSet(Observed')
       /\ (/\ Running = initTime
           /\ ret.op = "RemoveService" /\ ret.err = "ok"
           /\ Edit("AddService") /\ ret'.name = ret.name
           /\ ret.name # "" /\ ret.name \notin NameSet(Observed))
            => /\ ret'.err = "ok"
               /\ Observed' = Append(Observed, NewService(ret.name, <<>>))]_vars

C23_Witness ==
    /\ DOMAIN Sender = {} /\ Running = initTime
    /\ ret.op = "AddService" /\ ret.err = "ok" /\ ret.name = "s2"
    /\ quota.edits = 0
    /\ Len(Observed) = 1 /\ Observed[1].Name = "s2"

\* the sender has the four mandatory fields, none of them empty
SenderOk(sender) ==
    \A k \in {"user", "password", "host", "addr"} :
        k \in DOMAIN sender /\ sender[k] # ""

\* the step is an InitConfig that read the configuration file
Loads == quota'.inits = quota.inits - 1

\* C24: the Validate that ends InitConfig returns nil exactly if the names
\* of the services that were read are distinct, each of their files passes
\* File.Validate, the sender has its four fields non-empty and the storage is
\* "memory"; if it returns nil the backend is the memory backend, and else
\* InitConfig returns its error
C24_ValidateIff ==
    [][Loads =>
        /\ ret'.op = "InitConfig"
        /\ ret'.err = "ok" <=>
              /\ Cardinality(NameSet(Observed')) = Len(Observed')
              /\ \A k \in FileKeys(Observed') : ValidTarget(After(k))
              /\ SenderOk(Sender')
              /\ Storage' = "memory"
        /\ ret'.err = "ok" => Backend' = "Memory"
        /\ ret'.err # "ok" =>
              ret'.err \in {"service names should be unique", "not absolute",
                            "stat", "empty pattern", "bad pattern",
                            "missing sender field",
                            "sender field can't be empty",
                            "unknown backend"}]_vars

C24_Witness ==
    /\ ret.op = "InitConfig" /\ ret.err = "ok"
    /\ Backend = "Memory" /\ Storage = "memory" /\ starts = 0
    /\ Len(Observed) = 1 /\ Observed[1].Files[1].Pattern = "m"

\* C25: no Watch goroutine is spawned for a file with a period of 0 and no
\* cycle divides by a period of 0
C25_ZeroPeriodRejected ==
    /\ \A t \in 1..Len(tasks) : Before(tasks[t].key).Period # 0
    /\ ~panicked

\* the first test of File.Validate that the file fails, "nil" if none
Failure(f) ==
    IF f.Log \notin AbsPaths THEN "not absolute"
    ELSE IF ~fs[f.Log].exists THEN "stat"
    ELSE IF f.Pattern = "" THEN "empty pattern"
    ELSE IF f.Pattern = "**" THEN "bad pattern"
    ELSE "nil"

\* C26: the File.Validate of a Start fails for a path that is not absolute,
\* for one that does not exist, for an empty pattern and for one that does
\* not compile, and else succeeds with the compiled pattern stored and a
\* Watch spawned; the tests come in that order, so that the InitConfig of a
\* single file returns the first of them that fails
C26_ValidateInOrder ==
    [][/\ starts' = starts + 1 =>
            \A k \in FileKeys(Observed) :
                /\ (\E t \in (Len(tasks) + 1)..Len(tasks') : tasks'[t].key = k)
                      <=> Failure(Before(k)) = "nil"
                /\ Failure(Before(k)) = "nil"
                      => After(k).RgPattern = Before(k).Pattern
                /\ Failure(Before(k)) = "bad pattern"
                      => After(k).RgPattern = NoRegexp
                /\ Failure(Before(k)) \in {"not absolute", "stat",
                                           "empty pattern"}
                      => After(k).RgPattern = Before(k).RgPattern
       /\ (Loads /\ Len(Observed') = 1 /\ Len(Observed'[1].Files) = 1) =>
            LET e == Failure(Observed'[1].Files[1])
            IN  e # "nil" => ret'.err = e]_vars

C26_Witness ==
    /\ ret.op = "Start" /\ ret.err = "EmptyTaskSet"
    /\ Len(Observed) = 1 /\ Len(Observed[1].Files) = 1
    /\ Observed[1].Files[1].Log = "/c" /\ Observed[1].Files[1].Pattern = "**"
    /\ fs["/c"].exists /\ Observed[1].Files[1].RgPattern = NoRegexp
    /\ quota.inits = 0

\* C27: a call of AddService, RemoveService or InitConfig while the process
\* is running returns the already-running error and leaves the services, the
\* sender, the storage and the backend as they are
C27_FrozenWhileRunning ==
    [][(/\ Running # initTime
        /\ \/ Edit("AddService") \/ Edit("RemoveService")
           \/ ret' # ret /\ ret'.op = "InitConfig") =>
            /\ ret'.err = "AlreadyRunning"
            /\ UNCHANGED <<Observed, Sender, Storage, Backend, Running,
                           tasks, closed>>]_vars

C27_Witness ==
    /\ Running # initTime /\ ~panicked
    /\ ret.op = "RemoveService" /\ ret.err = "AlreadyRunning"
    /\ quota.edits = 0 /\ Len(Observed) = 2
    /\ \E t \in 1..Len(tasks) : tasks[t].pc = "select" /\ tasks[t].err = "nil"

\* C28: a file without Increase that Start has set up has ExtBoundary equal
\* to Boundary, whatever cycles, periods and notifications came since
C28_FixedBoundary ==
    \A k \in FileKeys(Observed) :
        (~Before(k).Increase /\ Before(k).LogStart # initTime)
            => Before(k).ExtBoundary = Before(k).Boundary

C28_Witness ==
    \E k \in FileKeys(Observed) :
        /\ ~Before(k).Increase /\ Before(k).Boundary = 1
        /\ Len(sent[k]) = 2
        /\ sent[k][1].period = 0 /\ sent[k][2].period = 1
        /\ Before(k).Counter = 1 /\ Before(k).ExtBoundary = 1

\* C29: a cycle that scans its file to the end leaves Pos at the number of
\* lines the file has then, and between such cycles Pos stays or is set to 0
C29_PosIsLineCount ==
    [][\A k \in FileKeys(Observed) :
        IF \E t \in 1..Len(tasks) : tasks[t].key = k /\ Cycle(t)
        THEN After(k).Pos = Len(fs[Before(k).Log].lines)
        ELSE After(k).Pos \in {Before(k).Pos, 0}]_vars

C29_Witness ==
    \E k \in FileKeys(Observed) :
        /\ Len(sent[k]) = 1 /\ sent[k][1].matched = 1
        /\ fs[Before(k).Log].lines = <<"n", "m">>
        /\ Before(k).Pos = 2 /\ Before(k).Found = 1

\* C30: no cycle leaves Pos smaller than it was before the cycle
C30_PosNeverDecreases ==
    [][\A t \in 1..Len(tasks) :
        Cycle(t) => After(tasks[t].key).Pos >= Before(tasks[t].key).Pos]_vars

\* sequence a begins sequence b
IsPrefix(a, b) == Len(a) <= Len(b) /\ SubSeq(b, 1, Len(a)) = a

\* what Counter is when a cycle reaches its threshold test
CounterBase(f) ==
    IF (now - f.LogStart) \div f.Period # f.Granularity THEN 0 ELSE f.Counter

\* C31: within one Watch goroutine a cycle scans, then counts, then decides
\* to notify on the count that includes its own scan, and the cycles of the
\* goroutine follow one another: while File.Check runs the goroutine takes
\* no event from its queue (events that arrive are queued behind the ones
\* there), and a cycle begins only from the select or from IsMoved
C31_CyclesInSequence ==
    [][\A t \in 1..Len(tasks) :
        /\ tasks[t].pc = "scan" =>
              /\ tasks'[t].pc \in {"scan", "select"}
              /\ IsPrefix(tasks[t].events, tasks'[t].events)
        /\ (tasks[t].pc # "scan" /\ tasks'[t].pc = "scan") =>
              tasks[t].pc \in {"select", "moved"}
        /\ Cycle(t) =>
              LET k == tasks[t].key
                  f == Before(k)
              IN  /\ Notifies(k) <=>
                        /\ FoundBase(f) + NewMatches(f) >= f.ExtBoundary
                        /\ CounterBase(f) <= f.Limit
                  /\ After(k).Pos = Len(fs[f.Log].lines)
                  /\ Len(tasks'[t].events) = Len(tasks[t].events)]_vars

C31_Witness ==
    \E t \in 1..Len(tasks) :
        /\ tasks[t].pc = "scan" /\ tasks[t].events = <<"modify">>
        /\ Before(tasks[t].key).Pos = 1
        /\ Len(sent[tasks[t].key]) = 1
        /\ Len(fs["/a"].lines) = 3

\* C32: at every moment at most one Watch goroutine is inside File.Check on
\* a given file, whatever Start and Stop calls were made: the counters of a
\* file have one owner
C32_ExclusiveOwner ==
    \A t1, t2 \in 1..Len(tasks) :
        (/\ tasks[t1].key = tasks[t2].key
         /\ tasks[t1].pc = "scan" /\ tasks[t2].pc = "scan") => t1 = t2

\* C34: a Watch goroutine whose finish channel is closed begins no cycle:
\* from its select or from IsMoved it does not go on to File.Check
C34_NoCycleAfterShutdown ==
    [][\A t \in 1..Len(tasks) :
        (tasks[t].finish \in closed /\ tasks[t].pc # "scan")
            => tasks'[t].pc # "scan"]_vars

\* C35: while a file is the one that was there at the beginning and holds
\* every line that was read, no step moves Pos back: no line is read, and so
\* counted, a second time, whether the events are modifications or changes
\* of attributes
C35_NoLineCountedTwice ==
    [][\A k \in FileKeys(Observed) \cap FileKeys(Observed') :
        LET f == Before(k)
        IN  (/\ f.Log \in AbsPaths
             /\ fs[f.Log].exists /\ fs[f.Log].gen = 1
             /\ f.Pos <= Len(fs[f.Log].lines))
                => After(k).Pos >= f.Pos]_vars

\* C36: a cycle leaves Counter one above what it was at the threshold test
\* if it hands a message to the notifier and equal to it if not, and it
\* hands over at most one message and starts at most one notifier
C36_CounterCountsMessages ==
    [][\A t \in 1..Len(tasks) :
        Cycle(t) =>
            LET k == tasks[t].key
                f == Before(k)
            IN  /\ Len(sent'[k]) - Len(sent[k]) \in {0, 1}
                /\ outbox' - outbox = Len(sent'[k]) - Len(sent[k])
                /\ After(k).Counter =
                       CounterBase(f) + (Len(sent'[k]) - Len(sent[k]))
                /\ \A j \in DOMAIN sent \ {k} : sent'[j] = sent[j]]_vars

C36_Witness ==
    \E k \in FileKeys(Observed) :
        /\ Before(k).Limit = 0 /\ Before(k).Increase
        /\ Len(sent[k]) = 1 /\ Before(k).Counter = 1
        /\ Before(k).Pos = 2 /\ Before(k).Found = 2
        /\ Before(k).ExtBoundary = Before(k).Boundary

\* C33: the running test and the change of Running are one step with
\* respect to other control calls: a file is never watched by the Watch
\* goroutines of two runs of which none has been stopped, and two Stop calls
\* are never both past the running test with the same channel to close
C33_ControlCallsAtomic ==
    /\ \A t1, t2 \in 1..Len(tasks) :
          (tasks[t1].key = tasks[t2].key /\ tasks[t1].finish < tasks[t2].finish)
              => tasks[t1].finish \in closed
    /\ \A c1, c2 \in Callers :
          (/\ calls[c1].pc = "close" /\ calls[c2].pc = "close"
           /\ calls[c1].arg = calls[c2].arg) => c1 = c2

\* C37: in every reachable state of the worker-pool design, Finished
\* implies Completed
C37_FinishedImpliesCompleted == Finished => Completed

\* in this step a Poller receives a task: a poll begins
PollBegins ==
    \E r \in 1..Len(runs) : \E i \in PollerIds(r) :
        runs[r].pollers[i].pc = "recv" /\ runs'[r].pollers[i].pc = "poll"

\* in this step a Sleep hands its task back through the pending channel
Requeued ==
    \E s \in sleeps : s.pc = "send" /\ s \notin sleeps' /\ ~panicked'

\* C38: once Stop has set Completed, no Sleep puts its task back on the
\* pending channel and no Poller begins a poll
C38_NoPollAfterStop ==
    [][(Completed /\ runs # <<>>) => (~Requeued /\ ~PollBegins)]_vars

\* C39: no step is a send on a pending channel that has been closed,
\* neither by a Sleep nor by the feeder goroutine of Start
C39_NoSendAfterClose ==
    [][/\ \A s \in sleeps : ~SleepSendClosed(s)
       /\ \A r \in 1..Len(runs) : ~FeederSendClosed(r)]_vars

\* Stop has been called while run r, which has a valid file, is the latest
Stopped(r) == Len(runs) = r /\ Completed /\ Feed(Observed, 1, 1) # <<>>

\* run r has finished: its pending channel is closed (Finished was set with
\* that), every Poller of it has left its loop and one of them offers `true`
RunFinished(r) ==
    /\ r \in DOMAIN runs
    /\ runs[r].pending = "closed"
    /\ \A i \in PollerIds(r) : runs[r].pollers[i].pc \in {"exit", "offer", "done"}
    /\ \E i \in PollerIds(r) : runs[r].pollers[i].pc = "offer"

\* C40: after Stop is called on a run with a valid file the run finishes in
\* the end
C40_StopFinishesRun == \A r \in RunIds : Stopped(r) ~> RunFinished(r)

====
